---- MODULE Spec2Model ----
(***************************************************************************)
(* Model of amazbot: the price decision policy of api.Client.search, the   *)
(* notification dedup cache of bot.search, the key parser parseArgs, the   *)
(* scheduler (polling goroutine against the command loop of Run), the      *)
(* retry loop of api.Client.Search with its pagination and its fetches,    *)
(* the sessions it resets, extractPrices over the offers of a page, and    *)
(* the construction and the pacing lock of api.transport.                  *)
(*                                                                         *)
(* Prices are integers in mills (1/1000 of the currency unit): 45000 is    *)
(* 45.00.  A float64 price of the program is a sum of two float32-rounded  *)
(* parses, so two distinct prices may print the same with "%.2f"; the      *)
(* mills keep that apart from the cents a fingerprint is built from.       *)
(* Tiers are indexed 0..4 as in the source.                                *)
(***************************************************************************)
EXTENDS Integers, Sequences, FiniteSets, TLC

VARIABLES
    item,       \* the api.Item handed to Client.search (bot.search's local, loaded from the store)
    snapshot,   \* the price vector of the last extraction (prices, api.go:195)
    events,     \* the tiers for which the last extraction invoked the callback, in order
    maxState,   \* the maximum-tier filter of the key being polled (parseID)
    lowMin,     \* history: the lowest nonzero MinPrice the item held before the last extraction (0: none)
    first,      \* history: the last extraction started from an absent item (ID empty)
    cache,      \* bot.cache: fingerprint -> expiration time (go-cache items)
    now,        \* the wall clock, in hours
    sent,       \* history: fingerprint -> the times a message was sent for it, in order
    dropped,    \* history, kept by CallbackItem: the last event the cache suppressed and when
    args,       \* the argument of the command being handled (a string: a sequence of characters)
    userChat,   \* userChats[user], the destination configured for the sender
    stored,     \* the key the command stored in bot.searchs (parsed.id), <<"?">> before
    parsed,     \* the parsedArgs the polling loop gets from parseArgs(k, "")
    kpc,        \* where the key is: "cmd", "stored", "polled"
    userChats,  \* userChats: user id -> the destination of the user's searches
    config,     \* the bucket "config" of the store: user id -> destination
    update,     \* history: the update the command loop handled last
    searchs,    \* bot.searchs: key -> last-known item or nil
    db,         \* bucket "db" of the store: key -> item
    ppc,        \* the polling goroutine's position
    pkeys,      \* the keys of its cycle still to visit, sorted
    pk,         \* the parsedArgs of the key it is searching
    cycle,      \* history: the keys of the cycle's snapshot (amazbot.go:97-102)
    visited,    \* history: the keys bot.search was called for in this cycle, in order
    skipped,    \* history: the keys of this cycle that were no longer active at their turn
    failed,     \* history: the keys for which Client.Search returned an error in this cycle
    cpc,        \* the position of Run: its start, the command loop, its deferred calls
    ckeys,      \* stopAll: the keys Range gave, still to delete
    ck,         \* stop: the parsedArgs of its argument
    cancelled,  \* ctx.Done() is closed
    stopped,    \* history: keys whose stop has completed and that were not registered again
    ranged,     \* history: the keys the last stopAll found in bot.searchs
    deletes,    \* history: the keys the stop or stopAll in progress issued a store delete for, in order
    spc,        \* Client.Search's position: "call", "loop", "search", "result", "done"
    retry,      \* Client.Search's local retry (api.go:133)
    started,    \* Client.started: the domains whose session has been set up
    aerr,       \* the error the last call of Client.search returned
    ret,        \* the error Client.Search returned, "none" while it runs
    apc,        \* Client.search's position: the fetch it waits for, "product" or "offers"
    pageno,     \* the offers page number (i, api.go:197)
    sha,        \* the content hash of the previous offers page (api.go:196), 0: the zero array
    pagePrices, \* the price vector the pagination has built so far (prices, api.go:195)
    fetched,    \* history: the offers pages fetched by this call of Client.search
    fpc,        \* getDocWithReq's position: "do", "solve", "ret"
    depth,      \* its recursion depth
    fres,       \* what the fetch returned: "doc" or the error's class
    fdoc,       \* the document it returned
    requests,   \* history: the HTTP requests this fetch issued
    solves,     \* history: the captcha-solver calls of this fetch
    status,     \* history: the status code of the fetch's last response, "none" without one
    form,       \* history: the captcha form of the fetch's last response, NoForm without one
    retriables, \* history: the extraction attempts of this Search that ended in errRetry
    timeouts,   \* history: the extraction attempts of this Search that ended in a timeout
    resets,     \* history: the session resets of this Search
    item0,      \* history: the item as it was when Search was called
    tpc,        \* transport.RoundTrip: each caller's position
    lock,       \* transport.lock: the caller holding it, 0 when free
    clock,      \* the wall clock, in seconds
    timer,      \* each caller's time.After deadline (api.go:660)
    completed,  \* history: when the last response was received, -1 before the first
    lastGap,    \* history: the time between the last request's start and the completion before it, -1: none
    proxyURL,   \* the proxyURL newTransport is called with (api.go:603)
    trErr,      \* the error newTransport returned, "none" before the call
    jar,        \* c.client.Jar: the domains whose delivery location its cookies hold
    sfetch,     \* history: the domain of the last product page fetch and whether the jar held its location
    rpc,        \* where reset(domain) is: "idle", "reset", "change", "post" or "done"
    rdomain,    \* the domain reset was called for
    modal,      \* changeLocation: the modal descriptor found in the root page
    scripts,    \* history: the inline scripts of the modal response
    token,      \* changeLocation: the CSRF token taken from the modal response
    posts,      \* history: the location-change POSTs sent, each with its token and form
    rerr        \* what reset returned

policyVars == <<item, snapshot, events, maxState, lowMin, first>>
dedupVars  == <<cache, now, sent, dropped>>
authVars   == <<userChats, config, update>>
keyVars    == <<args, userChat, stored, parsed, kpc, authVars>>
cycleVars  == <<cycle, visited, skipped, failed>>
pollVars   == <<ppc, pkeys, pk, cycleVars>>
cmdVars    == <<cpc, ckeys, ck>>
histVars   == <<stopped, ranged, deletes>>
schedVars  == <<searchs, db, pollVars, cmdVars, cancelled, histVars>>

searchVars == <<spc, retry, started, aerr, ret>>
pageVars   == <<apc, pageno, sha, pagePrices, fetched>>
fetchVars  == <<fpc, depth, fres, fdoc, requests, solves, status, form>>
countVars  == <<retriables, timeouts, resets, item0>>
paceVars   == <<tpc, lock, clock, timer, completed, lastGap>>
proxyVars  == <<proxyURL, trErr>>
sessVars   == <<jar, sfetch>>
resetVars  == <<rpc, rdomain, modal, scripts, token, posts, rerr>>
trVars     == <<paceVars, proxyVars, sessVars, resetVars>>
clientVars == <<searchVars, pageVars, fetchVars, countVars, trVars>>

vars == <<policyVars, dedupVars, keyVars, schedVars, clientVars>>

----------------------------------------------------------------------------
(* Data *)

States == 0..4

Vec(a, b, c, d, e) == [i \in States |-> <<a, b, c, d, e>>[i + 1]]

ZeroPrices == [i \in States |-> 0]

\* an offer block of an offers page (api.go:286-293): the text of its
\* heading, its listed price (0: no price text that parses) and the fees its
\* two kinds of delivery text give (0: no text that parses)
Offer(heading, listed, ddm, secondary) ==
    [heading |-> heading, listed |-> listed, ddm |-> ddm, secondary |-> secondary]

\* what the program reads in a response body: whether it has a product title
\* and a canonical link, the hash of its text, and its offer blocks, the
\* pinned one first
Doc(title, link, h, offers) == [title |-> title, link |-> link, sha |-> h, offers |-> offers]

NoDoc == Doc(FALSE, FALSE, 0, <<>>)

ZeroItem ==
    [ID |-> <<>>, Domain |-> <<>>, Link |-> <<>>, Title |-> <<>>,
     MinPrice |-> 0, Prices |-> ZeroPrices]

----------------------------------------------------------------------------
(* Price decision policy: api.Client.search, api.go:219-282 *)

\* api.go:219-226 with every vector taken for one with a price
found_always(prices) == TRUE

\* api.go:219-226
found(prices) == \E i \in States : prices[i] # 0

\* mutant of newMinOf: "<=" for "<"
newMinOf_orEqual(minPrice, prices) == minPrice = 0 \/ prices[0] <= minPrice

\* api.go:243
newMinOf(minPrice, prices) == minPrice = 0 \/ prices[0] < minPrice

\* api.go:243 with a tier 0 that is not offered leaving MinPrice alone
minPriceAfter_keep(minPrice, prices) ==
    IF prices[0] # 0 /\ newMinOf(minPrice, prices) THEN prices[0] ELSE minPrice

\* api.go:241-246: the MinPrice after the update
minPriceAfter(minPrice, prices) ==
    IF newMinOf(minPrice, prices) THEN prices[0] ELSE minPrice

\* mutant of aboveMaxState: the break one tier early
aboveMaxState_orEqual(i, maxSt) == i >= maxSt

\* api.go:254 with the break left out
aboveMaxState_never(i, maxSt) == FALSE

\* api.go:254: the loop breaks at the first tier above the filter
aboveMaxState(i, maxSt) == i > maxSt

\* mutant of firstMin: the first-run check left out
firstMin_missing(i, prevMin) == FALSE

\* api.go:262: skip first stored min price
firstMin(i, prevMin) == prevMin = 0 /\ i = 0

\* api.go:266: skip new price if not a new min
notNewMin(i, newMin) == i = 0 /\ ~newMin

\* api.go:270: skip prices higher than previous ones
notLower(p, prevPrice) == prevPrice > 0 /\ p >= prevPrice

\* mutant of usedAboveMin: ">" for ">="
usedAboveMin_strict(i, p, minPrice) == i > 0 /\ minPrice > 0 /\ p > minPrice

\* api.go:274: skip used prices higher than min
usedAboveMin(i, p, minPrice) == i > 0 /\ minPrice > 0 /\ p >= minPrice

\* api.go:252-279: does the loop reach callback(*item, i) for tier i
notifies(i, prices, prevMin, newMin, prev, minPrice, maxSt) ==
    /\ ~aboveMaxState(i, maxSt)
    /\ prices[i] # 0                           \* 258
    /\ ~firstMin(i, prevMin)
    /\ ~notNewMin(i, newMin)
    /\ ~notLower(prices[i], prev[i])
    /\ ~usedAboveMin(i, prices[i], minPrice)

\* api.go:237-251: the item after a successful extraction
updated(it, id, domain, link, title, prices) ==
    [ID |-> id, Domain |-> domain, Link |-> link, Title |-> title,
     MinPrice |-> minPriceAfter(it.MinPrice, prices), Prices |-> prices]

\* mutant of search: the used tiers compared with the MinPrice from before
\* the update (prevMin) instead of item.MinPrice
search_prevMin(it, id, domain, link, title, prices, maxSt) ==
    IF ~found(prices)
    THEN [item |-> it, events |-> <<>>]
    ELSE LET new == updated(it, id, domain, link, title, prices)
             nm  == newMinOf(it.MinPrice, prices)
         IN  [item   |-> new,
              events |-> SelectSeq(<<0, 1, 2, 3, 4>>,
                             LAMBDA i : notifies(i, prices, it.MinPrice, nm,
                                                 it.Prices, it.MinPrice, maxSt))]

\* api.go:219-282: the item and the callback tiers of one extraction whose
\* pages gave title, link and prices
search(it, id, domain, link, title, prices, maxSt) ==
    IF ~found(prices)
    THEN [item |-> it, events |-> <<>>]
    ELSE LET new == updated(it, id, domain, link, title, prices)
             nm  == newMinOf(it.MinPrice, prices)
         IN  [item   |-> new,
              events |-> SelectSeq(<<0, 1, 2, 3, 4>>,
                             LAMBDA i : notifies(i, prices, it.MinPrice, nm,
                                                 it.Prices, new.MinPrice, maxSt))]

\* api.go:277 with the item as it was before lines 237-251 passed on
callbackItem_prev(new, old) == old

\* api.go:277: callback(*item, i) passes a copy of the item pointed to,
\* which lines 237-251 have updated
callbackItem(new, old) == new

RECURSIVE priceLoop(_, _, _, _, _, _)
\* api.go:252-280: the loop over the tiers from i on, as the sequence of the
\* arguments of its callbacks
priceLoop(i, new, old, prices, newMin, maxSt) ==
    IF i > 4 \/ aboveMaxState(i, maxSt)
    THEN <<>>
    ELSE (IF \/ prices[i] = 0
             \/ firstMin(i, old.MinPrice)
             \/ notNewMin(i, newMin)
             \/ notLower(prices[i], old.Prices[i])
             \/ usedAboveMin(i, prices[i], new.MinPrice)
          THEN <<>>
          ELSE <<[item |-> callbackItem(new, old), state |-> i]>>)
         \o priceLoop(i + 1, new, old, prices, newMin, maxSt)

\* api.go:219-282: the callbacks of one extraction, each with its arguments
callbackArgs(it, id, domain, link, title, prices, maxSt) ==
    IF ~found(prices)
    THEN <<>>
    ELSE priceLoop(0, updated(it, id, domain, link, title, prices), it, prices,
                   newMinOf(it.MinPrice, prices), maxSt)

----------------------------------------------------------------------------
(* Search keys: parseArgs, amazbot.go:302-324.  A string is a sequence of
   one-character strings. *)

RECURSIVE Split(_, _)
\* strings.Split(s, sep) for a one-character sep
Split(s, sep) ==
    IF \A i \in DOMAIN s : s[i] # sep
    THEN <<s>>
    ELSE LET i == CHOOSE j \in DOMAIN s :
                      s[j] = sep /\ \A k \in 1..(j - 1) : s[k] # sep
         IN  <<SubSeq(s, 1, i - 1)>> \o Split(SubSeq(s, i + 1, Len(s)), sep)

\* strings.Trim(s, " ")
Trim(s) ==
    IF \A i \in DOMAIN s : s[i] = " "
    THEN <<>>
    ELSE LET lo == CHOOSE j \in DOMAIN s :
                       s[j] # " " /\ \A k \in 1..(j - 1) : s[k] = " "
             hi == CHOOSE j \in DOMAIN s :
                       s[j] # " " /\ \A k \in (j + 1)..Len(s) : s[k] = " "
         IN  SubSeq(s, lo, hi)

\* strings.ToLower left out
ToLower_none(s) == s

\* strings.ToLower
ToLower(s) ==
    [i \in DOMAIN s |-> CASE s[i] = "A" -> "a" [] s[i] = "B" -> "b" [] OTHER -> s[i]]

\* strings.ReplaceAll(s, " ", "+")
ReplaceAll(s) == [i \in DOMAIN s |-> IF s[i] = " " THEN "+" ELSE s[i]]

\* amazbot.go:322 with the separator left out
render_unseparated(chat, query) == chat \o query

\* amazbot.go:322: fmt.Sprintf("%s/%s", p.chat, p.query)
render(chat, query) == chat \o <<"/">> \o query

\* amazbot.go:308-324
parseArgs(a, chat) ==
    LET split == Split(a, "/")
        c0    == IF Len(split) = 1 THEN chat ELSE split[1]
        q0    == IF Len(split) = 1 THEN split[1] ELSE split[2]
        c     == ToLower(Trim(c0))
        q     == ReplaceAll(Trim(q0))
    IN  [id |-> render(c, q), chat |-> c, query |-> q]

NoKey == <<"?">>

NoArgs == [id |-> NoKey, chat |-> <<>>, query |-> <<>>]

\* an update of the front-end as the command loop reads it (amazbot.go:145-192)
Update(kind, user, command, a) ==
    [kind |-> kind, user |-> user, command |-> command, args |-> a]

NoUpdate == Update("none", 0, "", <<>>)

\* no user is configured and no update has been handled
InitAuthVars ==
    /\ userChats = <<>>
    /\ config = <<>>
    /\ update = NoUpdate

InitKeyVars ==
    /\ args = <<>>
    /\ userChat = <<>>
    /\ stored = NoKey
    /\ parsed = NoArgs
    /\ kpc = "cmd"
    /\ InitAuthVars

----------------------------------------------------------------------------
(* Product ids: api.parseID, api.go:443-461 *)

\* strings.SplitN(s, sep, 2) for a one-character sep
SplitN2(s, sep) ==
    IF \A i \in DOMAIN s : s[i] # sep
    THEN <<s>>
    ELSE LET i == CHOOSE j \in DOMAIN s :
                      s[j] = sep /\ \A k \in 1..(j - 1) : s[k] # sep
         IN  <<SubSeq(s, 1, i - 1), SubSeq(s, i + 1, Len(s))>>

Digit == [c \in {"0", "1", "2", "3", "4", "5", "6", "7", "8", "9"} |->
            CASE c = "0" -> 0 [] c = "1" -> 1 [] c = "2" -> 2 [] c = "3" -> 3
              [] c = "4" -> 4 [] c = "5" -> 5 [] c = "6" -> 6 [] c = "7" -> 7
              [] c = "8" -> 8 [] c = "9" -> 9]

RECURSIVE Decimal(_)
Decimal(s) == IF s = <<>> THEN 0 ELSE 10 * Decimal(SubSeq(s, 1, Len(s) - 1)) + Digit[s[Len(s)]]

\* strconv.Atoi
Atoi(s) ==
    LET signed == s # <<>> /\ s[1] \in {"-", "+"}
        body   == IF signed THEN Tail(s) ELSE s
    IN  IF body = <<>> \/ \E i \in DOMAIN body : body[i] \notin DOMAIN Digit
        THEN [ok |-> FALSE, n |-> 0]
        ELSE [ok |-> TRUE,
              n  |-> IF signed /\ s[1] = "-" THEN 0 - Decimal(body) ELSE Decimal(body)]

IDError == [ok |-> FALSE, id |-> <<>>, domain |-> <<>>, maxState |-> 0]

\* api.go:443-461
parseID(id) ==
    LET split == SplitN2(id, ".")
    IN  IF Len(split) # 2
        THEN IDError
        ELSE LET ext == SplitN2(split[2], "?")
             IN  IF Len(ext) > 1
                 THEN LET a == Atoi(ext[2])
                      IN  IF ~a.ok
                          THEN IDError
                          ELSE [ok |-> TRUE, id |-> split[1], domain |-> ext[1],
                                maxState |-> a.n]
                 ELSE [ok |-> TRUE, id |-> split[1], domain |-> split[2],
                       maxState |-> 4]

----------------------------------------------------------------------------
(* Dedup cache: the callback bot.search hands to Client.Search,
   amazbot.go:346-355, over the go-cache built at amazbot.go:50 *)

\* amazbot.go:50: cache.New(6*time.Hour, ...), the default expiration in hours
TTL == 6

\* "%.2f" of a price: the cents nearest to p mills, ties to even
Fmt2(p) ==
    LET q == p \div 10
        r == p % 10
    IN  IF r > 5 \/ (r = 5 /\ q % 2 = 1) THEN q + 1 ELSE q

\* mutant of cacheID: the price is not rounded
cacheID_rawPrice(chat, id, state, price) == <<chat, id, state, price>>

\* amazbot.go:347: fmt.Sprintf("%s/%s/%d/%.2f", parsed.chat, i.ID, state, i.Prices[state])
cacheID(chat, id, state, price) == <<chat, id, state, Fmt2(price)>>

\* amazbot.go:348: cache.Get finds an entry unless the clock has passed its expiration
cacheGet(c, t, k) == k \in DOMAIN c /\ ~(t > c[k])

\* amazbot.go:353: cache.Set(cacheID, struct{}{}, cache.DefaultExpiration)
cacheSet(c, t, k) == [x \in DOMAIN c \cup {k} |-> IF x = k THEN t + TTL ELSE c[x]]

\* amazbot.go:50: the janitor (cleanup interval) deletes the expired entries
deleteExpired(c, t) == [x \in {k \in DOMAIN c : ~(t > c[k])} |-> c[x]]

\* what a message is about: destination, item id, tier, price in cents
fingerprint(chat, id, state, price) == <<chat, id, state, Fmt2(price)>>

\* the history of sent messages with one more for fingerprint k at time t
record(h, t, k) ==
    [x \in DOMAIN h \cup {k} |->
        IF x = k THEN (IF k \in DOMAIN h THEN Append(h[k], t) ELSE <<t>>) ELSE h[x]]

\* amazbot.go:346-355: the callback; st is [cache, sent]
callback(st, t, chat, id, state, price) ==
    LET k == cacheID(chat, id, state, price)
    IN  IF cacheGet(st.cache, t, k)
        THEN st
        ELSE [cache |-> cacheSet(st.cache, t, k),
              sent  |-> record(st.sent, t, fingerprint(chat, id, state, price))]

RECURSIVE callbacks(_, _, _, _, _)
\* api.go:277 under amazbot.go:346: the callback for each tier of evs, with the updated item
callbacks(st, t, chat, it, evs) ==
    IF evs = <<>>
    THEN st
    ELSE callbacks(callback(st, t, chat, it.ID, Head(evs), it.Prices[Head(evs)]),
                   t, chat, it, Tail(evs))

EmptyMap == [x \in {} |-> 0]

MapPut(m, k, v) == [x \in DOMAIN m \cup {k} |-> IF x = k THEN v ELSE m[x]]

MapDelete(m, k) == [x \in DOMAIN m \ {k} |-> m[x]]

NoEvent == <<>>

InitDedupVars ==
    /\ cache = EmptyMap
    /\ now = 0
    /\ sent = EmptyMap
    /\ dropped = NoEvent

\* api.go:604: no proxy is configured
NoProxy == ""

\* no product page has been asked for
NoFetch == [domain |-> <<>>, located |-> TRUE]

\* the client has fetched nothing
InitTransportVars ==
    /\ tpc = <<>>
    /\ lock = 0
    /\ clock = 0
    /\ timer = <<>>
    /\ completed = -1
    /\ lastGap = -1
    /\ proxyURL = NoProxy
    /\ trErr = "nil"

\* api.go:594-601: locationModal, the descriptor's url and its token
Modal(url, tok) == [URL |-> url, Token |-> tok]

NoModal == Modal("", "")

\* no reset is running
InitResetVars ==
    /\ rpc = "idle"
    /\ rdomain = ""
    /\ modal = NoModal
    /\ scripts = <<>>
    /\ token = ""
    /\ posts = <<>>
    /\ rerr = "none"

\* api.go:54-62: a client that has reset no session
InitSessVars ==
    /\ jar = {}
    /\ sfetch = NoFetch
    /\ InitResetVars

\* api.go:379-421: what the captcha page holds: the marker
\* #captchacharacters, the form's image and its two hidden inputs
Form(marker, img, amzn, amznr) ==
    [marker |-> marker, img |-> img, amzn |-> amzn, amznr |-> amznr]

NoForm == Form(FALSE, FALSE, FALSE, FALSE)

\* no Search has been called
InitSearchVars ==
    /\ spc = "call"
    /\ retry = FALSE
    /\ started = {}
    /\ aerr = "nil"
    /\ ret = "none"
    /\ apc = "product"
    /\ pageno = 0
    /\ sha = 0
    /\ pagePrices = ZeroPrices
    /\ fetched = 0
    /\ fpc = "ret"
    /\ depth = 0
    /\ fres = "none"
    /\ fdoc = NoDoc
    /\ requests = 0
    /\ solves = 0
    /\ status = "none"
    /\ form = NoForm
    /\ retriables = 0
    /\ timeouts = 0
    /\ resets = 0
    /\ item0 = ZeroItem

InitClientVars == InitSearchVars /\ InitTransportVars /\ InitSessVars

\* no cycle has started
InitCycleVars ==
    /\ cycle = {}
    /\ visited = <<>>
    /\ skipped = {}
    /\ failed = {}

\* no key is tracked and neither loop has started
InitSchedVars ==
    /\ searchs = EmptyMap
    /\ db = EmptyMap
    /\ ppc = "range"
    /\ pkeys = <<>>
    /\ pk = NoArgs
    /\ InitCycleVars
    /\ cpc = "idle"
    /\ ckeys = <<>>
    /\ ck = NoArgs
    /\ cancelled = FALSE
    /\ stopped = {}
    /\ ranged = {}
    /\ deletes = <<>>

----------------------------------------------------------------------------
(* SpecPolicy: one tracked item polled again and again, starting absent *)

\* the canonical link and the title of the product page (api.go:169-193)
PageLink  == <<"l">>
PageTitle == <<"t">>

NewPrices  == {0, 20000, 45000, 50000}
UsedPrices == {0, 30000, 45000, 46000, 50000}
RestPrices == {0, 30000}

Snapshots ==
    {Vec(a, b, c, d, e) : a \in NewPrices, b \in UsedPrices,
                          c \in RestPrices, d \in RestPrices, e \in RestPrices}

lowest(low, m) == IF m = 0 THEN low ELSE IF low = 0 \/ m < low THEN m ELSE low

InitPolicy ==
    /\ item = ZeroItem
    /\ snapshot = ZeroPrices
    /\ events = <<>>
    /\ maxState \in States
    /\ lowMin = 0
    /\ first = FALSE
    /\ InitDedupVars
    /\ InitClientVars
    /\ InitKeyVars
    /\ InitSchedVars

Extract(prices) ==
    LET r == search(item, <<"x">>, <<"e", "s">>, PageLink, PageTitle, prices, maxState)
    IN  /\ item' = r.item
        /\ events' = r.events
        /\ snapshot' = prices
        /\ lowMin' = lowest(lowMin, item.MinPrice)
        /\ first' = (item.ID = <<>>)
        /\ UNCHANGED <<maxState, dedupVars, keyVars, clientVars, schedVars>>

NextPolicy == \E prices \in Snapshots : Extract(prices)

SpecPolicy == InitPolicy /\ [][NextPolicy]_vars

----------------------------------------------------------------------------
(* SpecDedup: events that passed the decision policy reach the callback
   while the clock runs *)

MaxClock == 8

Chats        == {<<"1">>}
ItemIDs      == {<<"x">>}
EventStates  == {0, 1}
EventPrices  == {45000, 45001, 46000}

InitDedup ==
    /\ item = ZeroItem
    /\ snapshot = ZeroPrices
    /\ events = <<>>
    /\ maxState = 4
    /\ lowMin = 0
    /\ first = FALSE
    /\ InitDedupVars
    /\ InitClientVars
    /\ InitKeyVars
    /\ InitSchedVars

Callback(chat, id, state, price) ==
    LET r == callback([cache |-> cache, sent |-> sent], now, chat, id, state, price)
    IN  /\ cache' = r.cache
        /\ sent' = r.sent
        /\ UNCHANGED <<now, dropped, policyVars, keyVars, clientVars, schedVars>>

Tick ==
    /\ now < MaxClock
    /\ now' = now + 1
    /\ UNCHANGED <<cache, sent, dropped, policyVars, keyVars, clientVars, schedVars>>

Janitor ==
    /\ cache' = deleteExpired(cache, now)
    /\ UNCHANGED <<now, sent, dropped, policyVars, keyVars, clientVars, schedVars>>

NextDedup ==
    \/ \E chat \in Chats, id \in ItemIDs, state \in EventStates, price \in EventPrices :
          Callback(chat, id, state, price)
    \/ Tick
    \/ Janitor

SpecDedup == InitDedup /\ [][NextDedup]_vars

\* the events of one product code tracked on two marketplaces
EventDomains == {<<"e", "s">>, <<"d", "e">>}
DomainPrices == {45000, 46000}

\* what an event is about: the destination, the item (api.go:237-238: its
\* ID and its Domain), the tier and the price in cents
identity(chat, id, domain, state, price) ==
    [chat |-> chat, id |-> id, domain |-> domain, state |-> state, price |-> Fmt2(price)]

\* amazbot.go:346-355 for the item of api.go:237-238, whose ID is the
\* product code and whose Domain the callback does not read
CallbackItem(chat, id, domain, state, price) ==
    LET k == cacheID(chat, id, state, price)
        ev == identity(chat, id, domain, state, price)
    IN  /\ IF cacheGet(cache, now, k)
           THEN /\ dropped' = [ev |-> ev, at |-> now]
                /\ UNCHANGED <<cache, sent>>
           ELSE /\ cache' = cacheSet(cache, now, k)
                /\ sent' = record(sent, now, ev)
                /\ UNCHANGED dropped
        /\ UNCHANGED <<now, policyVars, keyVars, clientVars, schedVars>>

NextIdentity ==
    \/ \E chat \in Chats, id \in ItemIDs, domain \in EventDomains, price \in DomainPrices :
          CallbackItem(chat, id, domain, 0, price)
    \/ Tick
    \/ Janitor

SpecIdentity == InitDedup /\ [][NextIdentity]_vars

----------------------------------------------------------------------------
(* SpecKeys: a search command stores a key, the polling loop parses it back *)

\* arguments of search commands: a product id with its domain, one with a
\* maximum-tier suffix, one whose suffix names no tier
XKey == <<"x", ".", "e", "s">>
YKey == <<"y", ".", "e", "s", "?", "0">>
NineKey == <<"x", ".", "e", "s", "?", "9">>
KeyExamples == {XKey, YKey, NineKey}

MaxArgLen  == 3
MaxChatLen == 2

Chars == {"a", "B", " ", "/"}

RECURSIVE Strings(_)
Strings(n) ==
    IF n = 0 THEN {<<>>}
    ELSE LET shorter == Strings(n - 1)
         IN  shorter \cup {Append(w, c) : w \in {x \in shorter : Len(x) = n - 1}, c \in Chars}

InitKeys ==
    /\ item = ZeroItem
    /\ snapshot = ZeroPrices
    /\ events = <<>>
    /\ maxState = 4
    /\ lowMin = 0
    /\ first = FALSE
    /\ InitDedupVars
    /\ InitClientVars
    /\ args \in (Strings(MaxArgLen) \ {<<>>}) \cup KeyExamples
    /\ userChat \in Strings(MaxChatLen) \ {<<>>}
    /\ stored = NoKey
    /\ parsed = NoArgs
    /\ kpc = "cmd"
    /\ InitAuthVars
    /\ InitSchedVars

\* amazbot.go:214-225, case "search": bot.searchs.Store(parsed.id, nil)
RegisterKey ==
    /\ kpc = "cmd"
    /\ stored' = parseArgs(args, userChat).id
    /\ kpc' = "stored"
    /\ UNCHANGED <<args, userChat, parsed, authVars, policyVars, dedupVars, schedVars, clientVars>>

\* amazbot.go:104-119: the polling loop parses the key it took from bot.searchs
ReparseKey ==
    /\ kpc = "stored"
    /\ parsed' = parseArgs(stored, <<>>)
    /\ kpc' = "polled"
    /\ UNCHANGED <<args, userChat, stored, authVars, policyVars, dedupVars, schedVars, clientVars>>

NextKeys == RegisterKey \/ ReparseKey

SpecKeys == InitKeys /\ [][NextKeys]_vars

----------------------------------------------------------------------------
(* SpecInject: every key a command can register, against every other one *)

MaxKeyLen == 2

\* the arguments and the configured destinations a command is handled with
KeyInputs == Strings(MaxKeyLen)

\* every parsedArgs parseArgs returns for them
AllParsed == {parseArgs(a, c) : a \in KeyInputs, c \in KeyInputs}

InitInject ==
    /\ item = ZeroItem
    /\ snapshot = ZeroPrices
    /\ events = <<>>
    /\ maxState = 4
    /\ lowMin = 0
    /\ first = FALSE
    /\ InitDedupVars
    /\ InitClientVars
    /\ args \in KeyInputs
    /\ userChat \in KeyInputs
    /\ stored = NoKey
    /\ parsed = NoArgs
    /\ kpc = "cmd"
    /\ InitAuthVars
    /\ InitSchedVars

\* amazbot.go:219, 274, 290: parsed, err := parseArgs(args, userChats[user])
ParseCommand ==
    /\ kpc = "cmd"
    /\ parsed' = parseArgs(args, userChat)
    /\ stored' = parseArgs(args, userChat).id
    /\ kpc' = "stored"
    /\ UNCHANGED <<args, userChat, authVars, policyVars, dedupVars, schedVars, clientVars>>

NextInject == ParseCommand

SpecInject == InitInject /\ [][NextInject]_vars

----------------------------------------------------------------------------
(* Spec: the scheduler.  The polling goroutine (amazbot.go:91-129, with
   bot.search, 326-369) runs against the command loop (138-299, with
   bot.stop and bot.stopAll, 371-394); each step is one access to
   bot.searchs or to the store. *)

\* the value bot.searchs holds for a key: nil, or an api.Item
Nil == [nil |-> TRUE, item |-> ZeroItem]
Some(it) == [nil |-> FALSE, item |-> it]

\* byte order of the characters that occur in keys
Ord(c) ==
    CASE c = " " -> 32 [] c = "*" -> 42 [] c = "+" -> 43 [] c = "-" -> 45
      [] c = "." -> 46 [] c = "/" -> 47 [] c \in DOMAIN Digit -> 48 + Digit[c]
      [] c = "?" -> 63 [] c = "@" -> 64 [] c = "A" -> 65 [] c = "B" -> 66
      [] c = "a" -> 97 [] c = "b" -> 98 [] c = "e" -> 101 [] c = "s" -> 115
      [] c = "x" -> 120 [] c = "y" -> 121

\* s < t as Go strings
Less(a, b) ==
    \/ Len(a) < Len(b) /\ SubSeq(b, 1, Len(a)) = a
    \/ \E i \in 1..Len(a) :
          /\ i <= Len(b)
          /\ SubSeq(a, 1, i - 1) = SubSeq(b, 1, i - 1)
          /\ Ord(a[i]) < Ord(b[i])

RECURSIVE Sorted(_)
\* amazbot.go:97-102: the keys of a Range, after sort.Strings
Sorted(S) ==
    IF S = {} THEN <<>>
    ELSE LET m == CHOOSE x \in S : \A y \in S \ {x} : Less(x, y)
         IN  <<m>> \o Sorted(S \ {m})

\* amazbot.go:373-377: the keys of a Range, in any order
Orders(S) ==
    {q \in [1..Cardinality(S) -> S] : \A i, j \in 1..Cardinality(S) : q[i] = q[j] => i = j}

\* amazbot.go:78-89 with the stored item loaded along with the key
reload_withItems(bucket) == [k \in DOMAIN bucket |-> Some(bucket[k])]

\* amazbot.go:78-89: every key of the bucket parses, and is stored with nil
reload(bucket) == [k \in DOMAIN bucket |-> Nil]

\* what the commands of the model carry as arguments
Star == <<"*">>

SearchArgs == {XKey, YKey}
StopArgs   == {XKey, YKey, Star}

\* what an extraction of the model's pages can observe
SchedSnapshots == {Vec(45000, 0, 0, 0, 0)}

\* the bucket at startup: empty, or one or two keys persisted by an earlier run
Persisted ==
    {EmptyMap,
     [k \in {<<"1", "/">> \o XKey} |->
        updated(ZeroItem, <<"x">>, <<"e", "s">>, PageLink, PageTitle, Vec(50000, 0, 0, 0, 0))],
     [k \in {<<"1", "/">> \o XKey, <<"1", "/">> \o YKey} |->
        IF k = <<"1", "/">> \o XKey
        THEN updated(ZeroItem, <<"x">>, <<"e", "s">>, PageLink, PageTitle, Vec(50000, 0, 0, 0, 0))
        ELSE updated(ZeroItem, <<"y">>, <<"e", "s">>, PageLink, PageTitle, Vec(45000, 0, 0, 0, 0))]}

Init ==
    /\ item = ZeroItem
    /\ snapshot = ZeroPrices
    /\ events = <<>>
    /\ maxState = 4
    /\ lowMin = 0
    /\ first = FALSE
    /\ InitDedupVars
    /\ InitClientVars
    /\ args = <<>>
    /\ userChat = <<"1">>
    /\ stored = NoKey
    /\ parsed = NoArgs
    /\ kpc = "cmd"
    /\ InitAuthVars
    /\ db \in Persisted
    /\ searchs = EmptyMap
    /\ ppc = "load"
    /\ pkeys = <<>>
    /\ pk = NoArgs
    /\ InitCycleVars
    /\ cpc = "load"
    /\ ckeys = <<>>
    /\ ck = NoArgs
    /\ cancelled = FALSE
    /\ stopped = {}
    /\ ranged = {}
    /\ deletes = <<>>

\* amazbot.go:111 with the check left out
active_always(m, k) == TRUE

\* amazbot.go:111: _, ok := bot.searchs.Load(k)
active(m, k) == k \in DOMAIN m

\* amazbot.go:102 with the keys left as Range gave them
sortStrings_none(q) == q

\* amazbot.go:102: sort.Strings(keys)
sortStrings(q) == Sorted({q[i] : i \in DOMAIN q})

\* amazbot.go:355-357 with the cycle given up on an error
onSearchError_abort(keys) == <<>>

\* amazbot.go:355-357: the error is logged and the keys still to visit stay
onSearchError(keys) == keys

\* the polling goroutine is inside bot.search
InSearch == ppc \in {"get", "search", "check", "store", "put"}

\* amazbot.go:78-92 and 138: Run loads the keys of the bucket, then starts
\* the polling goroutine and the command loop
Reload ==
    /\ ppc = "load"
    /\ searchs' = reload(db)
    /\ ppc' = "range"
    /\ cpc' = "idle"
    /\ UNCHANGED <<pkeys, pk, cycleVars, ckeys, ck, db, cancelled, histVars,
                   policyVars, dedupVars, keyVars, clientVars>>

\* amazbot.go:96-103: a cycle starts with the sorted keys of bot.searchs
PollRange ==
    /\ ppc = "range"
    /\ \E q \in Orders(DOMAIN searchs) : pkeys' = sortStrings(q)
    /\ cycle' = DOMAIN searchs
    /\ visited' = <<>>
    /\ skipped' = {}
    /\ failed' = {}
    /\ ppc' = "next"
    /\ UNCHANGED <<pk, searchs, db, cmdVars, cancelled, histVars,
                   policyVars, dedupVars, keyVars, clientVars>>

\* amazbot.go:107 and 124 with a context that is never seen as done
ctxDone_never(c) == FALSE

\* amazbot.go:107 and 124: case <-ctx.Done()
ctxDone(c) == c

\* amazbot.go:104-121: the next key of the cycle, up to the call of bot.search
\* (326-329); after the last key the cycle ends
PollNext ==
    /\ ppc = "next"
    /\ IF pkeys = <<>>
       THEN ppc' = "sleep" /\ UNCHANGED <<pkeys, pk, visited, skipped>>
       ELSE IF ctxDone(cancelled)
       THEN ppc' = "done" /\ UNCHANGED <<pkeys, pk, visited, skipped>>
       ELSE /\ pkeys' = Tail(pkeys)
            /\ IF ~active(searchs, Head(pkeys))
               THEN /\ ppc' = "next"
                    /\ skipped' = skipped \cup {Head(pkeys)}
                    /\ UNCHANGED <<pk, visited>>
               ELSE LET p == parseArgs(Head(pkeys), <<>>)
                    IN  /\ visited' = Append(visited, Head(pkeys))
                        /\ UNCHANGED skipped
                        /\ IF p.query = <<>>
                           THEN ppc' = "next" /\ UNCHANGED pk
                           ELSE ppc' = "get" /\ pk' = p
    /\ UNCHANGED <<cycle, failed>>
    /\ UNCHANGED <<searchs, db, cmdVars, cancelled, histVars,
                   policyVars, dedupVars, keyVars, clientVars>>

\* amazbot.go:123-127: between two cycles
PollSleep ==
    /\ ppc = "sleep"
    /\ ppc' = IF ctxDone(cancelled) THEN "done" ELSE "range"
    /\ UNCHANGED <<pkeys, pk, cycleVars, searchs, db, cmdVars, cancelled, histVars,
                   policyVars, dedupVars, keyVars, clientVars>>

\* amazbot.go:331-334: db.Get leaves the zero item when the key is absent
PollGet ==
    /\ ppc = "get"
    /\ item' = IF pk.id \in DOMAIN db THEN db[pk.id] ELSE ZeroItem
    /\ ppc' = "search"
    /\ UNCHANGED <<snapshot, events, maxState, lowMin, first, pkeys, pk, cycleVars, searchs, db,
                   cmdVars, cancelled, histVars, dedupVars, keyVars, clientVars>>

\* bot.search returns: its locals (parsed, item) and what its extraction
\* observed are gone
Return ==
    /\ ppc' = "next"
    /\ pk' = NoArgs
    /\ item' = ZeroItem
    /\ snapshot' = ZeroPrices
    /\ events' = <<>>
    /\ maxState' = 4
    /\ UNCHANGED <<lowMin, first, pkeys, cycleVars>>

\* amazbot.go:346-357 with api.go:122-155: Client.Search returns at once on
\* a bad id or on cancellation, fails without touching the item, or
\* extracts prices, updates the item and calls back
PollSearch ==
    /\ ppc = "search"
    /\ ppc' = "check"
    /\ LET pid == parseID(pk.query)
       IN  \/ /\ \E e \in {"error", "nil"} :
                    /\ e = "nil" => pid.ok
                    /\ failed' = IF e = "nil" THEN failed ELSE failed \cup {pk.id}
                    /\ pkeys' = onSearchError(pkeys)
              /\ UNCHANGED <<item, snapshot, events, maxState, dedupVars>>
           \/ /\ pid.ok
              /\ ~cancelled
              /\ \E prices \in SchedSnapshots :
                    LET r  == search(item, pid.id, pid.domain, PageLink, PageTitle,
                                     prices, pid.maxState)
                        st == callbacks([cache |-> cache, sent |-> sent], now,
                                        pk.chat, r.item, r.events)
                    IN  /\ item' = r.item
                        /\ events' = r.events
                        /\ snapshot' = prices
                        /\ maxState' = pid.maxState
                        /\ cache' = st.cache
                        /\ sent' = st.sent
                        /\ UNCHANGED <<now, dropped, pkeys, failed>>
    /\ timeouts' = 0
    /\ UNCHANGED <<lowMin, first, pk, cycle, visited, skipped, searchs, db, cmdVars, cancelled,
                   histVars, keyVars, searchVars, pageVars, fetchVars, retriables, resets,
                   item0, trVars>>

\* amazbot.go:358-363
PollCheck ==
    /\ ppc = "check"
    /\ IF item.ID = <<>> \/ pk.id \notin DOMAIN searchs
       THEN Return
       ELSE ppc' = "store" /\ UNCHANGED <<pkeys, pk, cycleVars, policyVars>>
    /\ UNCHANGED <<searchs, db, cmdVars, cancelled, histVars, dedupVars, keyVars, clientVars>>

\* amazbot.go:364
PollStore ==
    /\ ppc = "store"
    /\ searchs' = MapPut(searchs, pk.id, Some(item))
    /\ ppc' = "put"
    /\ UNCHANGED <<pkeys, pk, cycleVars, db, cmdVars, cancelled, histVars,
                   policyVars, dedupVars, keyVars, clientVars>>

\* amazbot.go:365-368
PollPut ==
    /\ ppc = "put"
    /\ db' = MapPut(db, pk.id, item)
    /\ Return
    /\ UNCHANGED <<searchs, cmdVars, cancelled, histVars, dedupVars, keyVars, clientVars>>

\* amazbot.go:214-225, case "search"
CmdSearch(a) ==
    /\ cpc = "idle"
    /\ searchs' = MapPut(searchs, parseArgs(a, userChat).id, Nil)
    /\ stopped' = stopped \ {parseArgs(a, userChat).id}
    /\ UNCHANGED <<db, pollVars, cmdVars, cancelled, ranged, deletes,
                   policyVars, dedupVars, keyVars, clientVars>>

\* amazbot.go:269-284, case "stop": stopAll for the query "*", stop otherwise
CmdStop(a) ==
    /\ cpc = "idle"
    /\ ck' = parseArgs(a, userChat)
    /\ cpc' = IF ck'.query = Star THEN "stopAll" ELSE "stop"
    /\ UNCHANGED <<ckeys, searchs, db, pollVars, cancelled, histVars,
                   policyVars, dedupVars, keyVars, clientVars>>

\* amazbot.go:387 with the check left out
loaded_always(m, k) == TRUE

\* amazbot.go:387: _, ok := b.searchs.Load(parsed.id)
loaded(m, k) == k \in DOMAIN m

\* amazbot.go:387
StopLoad ==
    /\ cpc = "stop"
    /\ cpc' = IF loaded(searchs, ck.id) THEN "stopDelete" ELSE "stopped"
    /\ UNCHANGED <<ckeys, ck, searchs, db, pollVars, cancelled, histVars,
                   policyVars, dedupVars, keyVars, clientVars>>

\* amazbot.go:389
StopDelete ==
    /\ cpc = "stopDelete"
    /\ searchs' = MapDelete(searchs, ck.id)
    /\ cpc' = "stopDbDelete"
    /\ UNCHANGED <<ckeys, ck, db, pollVars, cancelled, histVars,
                   policyVars, dedupVars, keyVars, clientVars>>

\* amazbot.go:390-392, and the return of stop
StopDbDelete ==
    /\ cpc = "stopDbDelete"
    /\ db' = MapDelete(db, ck.id)
    /\ deletes' = Append(deletes, ck.id)
    /\ stopped' = stopped \cup {ck.id}
    /\ cpc' = "stopped"
    /\ UNCHANGED <<ckeys, ck, searchs, pollVars, cancelled, ranged,
                   policyVars, dedupVars, keyVars, clientVars>>

\* amazbot.go:281-282: stop has returned, "stopped <key>" is sent
Stopped ==
    /\ cpc = "stopped"
    /\ cpc' = "idle"
    /\ ck' = NoArgs
    /\ deletes' = <<>>
    /\ UNCHANGED <<ckeys, searchs, db, pollVars, cancelled, stopped, ranged,
                   policyVars, dedupVars, keyVars, clientVars>>

\* amazbot.go:373-377
StopAllRange ==
    /\ cpc = "stopAll"
    /\ ckeys' \in Orders(DOMAIN searchs)
    /\ ranged' = DOMAIN searchs
    /\ deletes' = <<>>
    /\ cpc' = "stopAllDelete"
    /\ UNCHANGED <<ck, searchs, db, pollVars, cancelled, stopped,
                   policyVars, dedupVars, keyVars, clientVars>>

\* amazbot.go:378-380: the next key of the loop, or the return of stopAll
StopAllDelete ==
    /\ cpc = "stopAllDelete"
    /\ IF ckeys = <<>>
       THEN /\ cpc' = "stoppedAll"
            /\ stopped' = stopped \cup ranged
            /\ UNCHANGED searchs
       ELSE /\ searchs' = MapDelete(searchs, Head(ckeys))
            /\ cpc' = "stopAllDbDelete"
            /\ UNCHANGED stopped
    /\ UNCHANGED <<ckeys, ck, db, pollVars, cancelled, ranged, deletes,
                   policyVars, dedupVars, keyVars, clientVars>>

\* amazbot.go:381-383
StopAllDbDelete ==
    /\ cpc = "stopAllDbDelete"
    /\ db' = MapDelete(db, Head(ckeys))
    /\ deletes' = Append(deletes, Head(ckeys))
    /\ ckeys' = Tail(ckeys)
    /\ cpc' = "stopAllDelete"
    /\ UNCHANGED <<ck, searchs, pollVars, cancelled, stopped, ranged,
                   policyVars, dedupVars, keyVars, clientVars>>

\* amazbot.go:280: stopAll has returned, "stopped all" is sent
StoppedAll ==
    /\ cpc = "stoppedAll"
    /\ cpc' = "idle"
    /\ ck' = NoArgs
    /\ ranged' = {}
    /\ deletes' = <<>>
    /\ UNCHANGED <<ckeys, searchs, db, pollVars, cancelled, stopped,
                   policyVars, dedupVars, keyVars, clientVars>>

\* amazbot.go:140-143: the command loop returns once ctx is done
CmdExit ==
    /\ cpc = "idle"
    /\ cancelled
    /\ cpc' = "done"
    /\ UNCHANGED <<ckeys, ck, searchs, db, pollVars, cancelled, histVars,
                   policyVars, dedupVars, keyVars, clientVars>>

\* amazbot.go:76 with the store closed without waiting for the goroutine
waited_always(pc) == TRUE

\* amazbot.go:76 and 94: bot.wg.Wait() returns once the goroutine has run
\* its deferred bot.wg.Done()
waited(pc) == pc = "done"

\* amazbot.go:36 and 75-76: the deferred calls of Run in reverse order:
\* bot.wg.Wait(), the log line, then db.Close()
Close ==
    /\ cpc = "done"
    /\ waited(ppc)
    /\ cpc' = "closed"
    /\ UNCHANGED <<ckeys, ck, searchs, db, pollVars, cancelled, histVars,
                   policyVars, dedupVars, keyVars, clientVars>>

\* the context of Run is cancelled (cmd/amazbot/main.go)
Cancel ==
    /\ ~cancelled
    /\ cancelled' = TRUE
    /\ UNCHANGED <<searchs, db, pollVars, cmdVars, histVars,
                   policyVars, dedupVars, keyVars, clientVars>>

Next ==
    \/ Reload
    \/ PollRange
    \/ PollNext
    \/ PollSleep
    \/ PollGet
    \/ PollSearch
    \/ PollCheck
    \/ PollStore
    \/ PollPut
    \/ \E a \in SearchArgs : CmdSearch(a)
    \/ \E a \in StopArgs : CmdStop(a)
    \/ StopLoad
    \/ StopDelete
    \/ StopDbDelete
    \/ Stopped
    \/ StopAllRange
    \/ StopAllDelete
    \/ StopAllDbDelete
    \/ StoppedAll
    \/ CmdExit
    \/ Close
    \/ Cancel

Spec == Init /\ [][Next]_vars

\* the steps of Run up to the start of the goroutine, and of the goroutine
Poll ==
    \/ Reload
    \/ PollRange
    \/ PollNext
    \/ PollSleep
    \/ PollGet
    \/ PollSearch
    \/ PollCheck
    \/ PollStore
    \/ PollPut

\* the polling goroutine against the search and stop commands for one key
NextFair ==
    \/ Poll
    \/ CmdSearch(XKey)
    \/ CmdStop(XKey)
    \/ StopLoad
    \/ StopDelete
    \/ StopDbDelete
    \/ Stopped
    \/ CmdExit
    \/ Cancel

\* the Go scheduler keeps running the polling goroutine (amazbot.go:92), and
\* each of its calls returns: the requests of Client.Search time out after
\* 30 s (api.go:57) and its loop ends on ctx.Done (api.go:135-137)
SpecFair == Init /\ [][NextFair]_vars /\ WF_vars(Poll)

\* the timeouts in a row a Search is followed through
MaxTimeouts == 2

\* the steps of the goroutine outside Client.Search: the calls of the map
\* and of the store return
PollLoop ==
    \/ Reload
    \/ PollRange
    \/ PollNext
    \/ PollSleep
    \/ PollGet
    \/ PollCheck
    \/ PollStore
    \/ PollPut

\* api.go:141-144 with the timeout returned to bot.search as an error
onTimeout_return(pc) == "check"

\* api.go:141-144: continue; Client.Search does not return
onTimeout(pc) == pc

\* api.go:140-144 under amazbot.go:346: an attempt of the Search in flight
\* times out and the loop of Search starts the next one
PollTimeout ==
    /\ ppc = "search"
    /\ ~cancelled
    /\ parseID(pk.query).ok
    /\ timeouts < MaxTimeouts
    /\ timeouts' = timeouts + 1
    /\ ppc' = onTimeout(ppc)
    /\ UNCHANGED <<searchs, db, pkeys, pk, cycleVars, cmdVars, cancelled, histVars,
                   policyVars, dedupVars, keyVars, searchVars, pageVars, fetchVars,
                   retriables, resets, item0, trVars>>

\* the polling goroutine, with a Search that may go on timing out, against
\* the search and stop commands for one key; the context is not cancelled
NextLive ==
    \/ PollLoop
    \/ PollSearch
    \/ PollTimeout
    \/ CmdSearch(XKey)
    \/ CmdStop(XKey)
    \/ StopLoad
    \/ StopDelete
    \/ StopDbDelete
    \/ Stopped

\* the Go scheduler keeps running the polling goroutine (amazbot.go:92);
\* nothing makes Client.Search return while its attempts time out
\* (api.go:140-144), so no fairness is put on PollSearch
SpecLive == Init /\ [][NextLive]_vars /\ WF_vars(PollLoop)

----------------------------------------------------------------------------
(* SpecClient: one call of Client.Search (api.go:122-155) with the
   extraction attempts of Client.search (159-283) and the fetches of
   getDocWithReq (357-441) it is made of; each step is one network call
   with what the program does between two of them. *)

\* api.go:212: the page number from which the pagination gives up
MaxPage == 10

\* api.go:358: the depth from which a fetch gives up
MaxDepth == 2

\* the headings of the offers of amazon.es (src/amazbot.go:486-524): new,
\* two used grades, and a label of no tier
NewHeading  == "Nuevo"
LikeHeading == "De 2a mano - Como nuevo"
GoodHeading == "De 2a mano - Bueno"
OddHeading  == "Reacondicionado"

\* api.go:294-313: the tier of an offer's heading for domain "es", -1 when
\* the text is none of the five labels
headingState(heading) ==
    CASE heading = NewHeading  -> 0
      [] heading = LikeHeading -> 1
      [] heading = GoodHeading -> 3
      [] OTHER                 -> -1

\* api.go:318-331: the delivery fee; the second kind of text, when it
\* parses, replaces the first
deliveryOf(o) == IF o.secondary # 0 THEN o.secondary ELSE o.ddm

\* api.go:339 with every price taken
lower_always(price, cur) == TRUE

\* api.go:339: if prices[state] == 0 || price < prices[state]
lower(price, cur) == cur = 0 \/ price < cur

\* api.go:294-344: one offer block
extractOffer(o, ps) ==
    LET state == headingState(o.heading)
        price == o.listed + deliveryOf(o)
    IN  IF state < 0 \/ o.listed = 0 THEN ps
        ELSE IF lower(price, ps[state]) THEN [ps EXCEPT ![state] = price]
        ELSE ps

RECURSIVE extractOffers(_, _)
\* api.go:292-345: the offer blocks in document order
extractOffers(offers, ps) ==
    IF offers = <<>> THEN ps
    ELSE extractOffers(Tail(offers), extractOffer(Head(offers), ps))

\* api.go:285-347: per tier, the lowest total price seen so far
extractPrices(doc, ps) == extractOffers(doc.offers, ps)

\* the response bodies of the model: a product page with offers for the new
\* tier, one with a used offer, one with no offer, one without a title and
\* one without a canonical link; the first two hash differently
Docs ==
    {Doc(TRUE, TRUE, 1, <<Offer(NewHeading, 45000, 0, 0)>>),
     Doc(TRUE, TRUE, 2, <<Offer(LikeHeading, 25000, 5000, 0)>>),
     Doc(TRUE, TRUE, 3, <<>>),
     Doc(FALSE, TRUE, 3, <<>>),
     Doc(TRUE, FALSE, 3, <<>>)}

\* the captcha pages: the marker, with any of the three parts there or not
Forms == {Form(TRUE, i, a, r) : i \in BOOLEAN, a \in BOOLEAN, r \in BOOLEAN}

\* api.go:397-421 with the two hidden inputs left unchecked
formComplete_imgOnly(f) == f.img

\* api.go:397-421: the image and both tokens were found
formComplete(f) == f.img /\ f.amzn /\ f.amznr

\* what c.client.Do and the parse of the body give (api.go:362-421)
Responses ==
    {[kind |-> k, doc |-> NoDoc, form |-> NoForm] : k \in {"timeout", "neterr", "502", "503", "404"}}
    \cup {[kind |-> "captcha", doc |-> NoDoc, form |-> f] : f \in Forms}
    \cup {[kind |-> "page", doc |-> dd, form |-> NoForm] : dd \in Docs}

\* api.go:366 with 502 alone taken for retriable
classify_only502(r) ==
    CASE r.kind = "timeout"    -> "timeout"
      [] r.kind = "neterr"     -> "error"
      [] r.kind = "502"        -> "retry"
      [] r.kind = "503"        -> "error"
      [] r.kind = "404"        -> "error"
      [] r.kind = "captcha"    -> IF formComplete(r.form) THEN "captcha" ELSE "error"
      [] r.kind = "page"       -> "doc"

\* api.go:362-440 for one response at a depth the guard of line 358 let pass:
\* the error's class, "doc", or "captcha" when the solver is called next
classify(r) ==
    CASE r.kind = "timeout"    -> "timeout"
      [] r.kind = "neterr"     -> "error"
      [] r.kind = "502"        -> "retry"
      [] r.kind = "503"        -> "retry"
      [] r.kind = "404"        -> "error"
      [] r.kind = "captcha"    -> IF formComplete(r.form) THEN "captcha" ELSE "error"
      [] r.kind = "page"       -> "doc"

\* api.go:362-371: r.StatusCode, "none" when c.client.Do gave an error
statusOf(r) ==
    CASE r.kind \in {"timeout", "neterr"} -> "none"
      [] r.kind \in {"502", "503", "404"} -> r.kind
      [] OTHER                            -> "200"

\* api.go:490-518: the cookie jar after reset(domain); it is a new jar, and
\* it holds the domain's delivery location if the reset went through
reset(ok, domain) == IF ok THEN {domain} ELSE {}

\* api.go:126 with the session set up at every call
firstUse_always(s, domain) == TRUE

\* api.go:126: the domain is not in c.started
firstUse(s, domain) == domain \notin s

\* api.go:358 with the guard left out
tooDeep_never(dp) == FALSE

\* api.go:358: the recursion guard
tooDeep(dp) == dp > MaxDepth

\* api.go:349-355: getDoc(u, id, 0)
getDoc ==
    /\ fpc' = "do"
    /\ depth' = 0
    /\ fres' = "none"
    /\ fdoc' = NoDoc
    /\ requests' = 0
    /\ solves' = 0
    /\ status' = "none"
    /\ form' = NoForm

\* the ids Search is called with: one that parses and one without a domain
SearchKeys == {<<"1", "/">> \o XKey, <<"1", "/", "x">>}

StoredItems ==
    {ZeroItem,
     updated(ZeroItem, <<"x">>, <<"e", "s">>, PageLink, PageTitle, Vec(50000, 0, 0, 0, 0))}

InitClient ==
    /\ item \in StoredItems
    /\ item0 = item
    /\ snapshot = ZeroPrices
    /\ events = <<>>
    /\ maxState = 4
    /\ lowMin = 0
    /\ first = FALSE
    /\ InitDedupVars
    /\ InitKeyVars
    /\ searchs = EmptyMap
    /\ db = EmptyMap
    /\ ppc = "search"
    /\ pkeys = <<>>
    /\ pk \in {parseArgs(k, <<>>) : k \in SearchKeys}
    /\ InitCycleVars
    /\ cpc = "idle"
    /\ ckeys = <<>>
    /\ ck = NoArgs
    /\ cancelled = FALSE
    /\ stopped = {}
    /\ ranged = {}
    /\ deletes = <<>>
    /\ spc = "call"
    /\ retry = FALSE
    /\ started \in {{}, {<<"e", "s">>}}
    /\ aerr = "nil"
    /\ ret = "none"
    /\ apc = "product"
    /\ pageno = 0
    /\ sha = 0
    /\ pagePrices = ZeroPrices
    /\ fetched = 0
    /\ fpc = "ret"
    /\ depth = 0
    /\ fres = "none"
    /\ fdoc = NoDoc
    /\ requests = 0
    /\ solves = 0
    /\ status = "none"
    /\ form = NoForm
    /\ retriables = 0
    /\ timeouts = 0
    /\ resets = 0
    /\ InitTransportVars
    /\ jar = started
    /\ sfetch = NoFetch
    /\ InitResetVars

\* api.go:122-132: the id is parsed and the domain's session set up on first use
SearchCall ==
    /\ spc = "call"
    /\ LET pid == parseID(pk.query)
       IN  IF ~pid.ok
           THEN /\ ret' = "error"
                /\ spc' = "done"
                /\ UNCHANGED <<maxState, started, resets, jar>>
           ELSE /\ maxState' = pid.maxState
                /\ IF ~firstUse(started, pid.domain)
                   THEN /\ spc' = "loop"
                        /\ UNCHANGED <<ret, started, resets, jar>>
                   ELSE /\ resets' = resets + 1
                        /\ \E e \in {"nil", "timeout", "retry", "error"} :
                              /\ jar' = reset(e = "nil", pid.domain)
                              /\ IF e = "nil"
                                 THEN /\ started' = started \cup {pid.domain}
                                      /\ spc' = "loop"
                                      /\ UNCHANGED ret
                                 ELSE /\ ret' = e
                                      /\ spc' = "done"
                                      /\ UNCHANGED started
    /\ UNCHANGED <<item, snapshot, events, lowMin, first, retry, aerr, pageVars, fetchVars,
                   retriables, timeouts, item0, paceVars, proxyVars, resetVars, sfetch,
                   dedupVars, keyVars, schedVars>>

\* api.go:134-140 and 159-164: the top of an iteration; an attempt starts
\* with the fetch of the product page
SearchLoop ==
    /\ spc = "loop"
    /\ IF cancelled
       THEN /\ ret' = "nil"
            /\ spc' = "done"
            /\ UNCHANGED <<pageVars, fetchVars, sfetch>>
       ELSE /\ spc' = "search"
            /\ apc' = "product"
            /\ pageno' = 0
            /\ sha' = 0
            /\ pagePrices' = ZeroPrices
            /\ fetched' = 0
            /\ getDoc
            /\ LET domain == parseID(pk.query).domain
               IN  sfetch' = [domain |-> domain, located |-> domain \in jar]
            /\ UNCHANGED ret
    /\ UNCHANGED <<policyVars, retry, started, aerr, countVars, paceVars, proxyVars, resetVars, jar,
                   dedupVars, keyVars, schedVars>>

\* api.go:357-421: one request of a fetch and what its response is taken for
FetchDo ==
    /\ spc = "search"
    /\ fpc = "do"
    /\ IF tooDeep(depth)
       THEN /\ fres' = "recursion"
            /\ fpc' = "ret"
            /\ UNCHANGED <<fdoc, requests, status, form>>
       ELSE /\ requests' = requests + 1
            /\ \E r \in Responses :
                  /\ r.kind = "timeout" => timeouts < MaxTimeouts
                  /\ status' = statusOf(r)
                  /\ form' = r.form
                  /\ IF classify(r) = "captcha"
                     THEN fpc' = "solve" /\ UNCHANGED <<fres, fdoc>>
                     ELSE fpc' = "ret" /\ fres' = classify(r) /\ fdoc' = r.doc
    /\ UNCHANGED <<policyVars, searchVars, pageVars, depth, solves, countVars, trVars,
                   dedupVars, keyVars, schedVars>>

\* api.go:423-438: the solver is called and the answer sent, one level deeper
Solutions == {"nil", "empty", "timeout", "error"}

\* api.go:463-488: the class of the error resolveCaptcha returns; an empty
\* body is an error as the solver's own failure is
solveError(e) == IF e = "empty" THEN "error" ELSE e

FetchSolve ==
    /\ spc = "search"
    /\ fpc = "solve"
    /\ solves' = solves + 1
    /\ \E e \in Solutions :
          /\ e = "timeout" => timeouts < MaxTimeouts
          /\ IF e = "nil"
             THEN fpc' = "do" /\ depth' = depth + 1 /\ UNCHANGED fres
             ELSE fpc' = "ret" /\ fres' = solveError(e) /\ UNCHANGED depth
    /\ UNCHANGED <<policyVars, searchVars, pageVars, fdoc, requests, status, form, countVars, trVars,
                   dedupVars, keyVars, schedVars>>

\* api.go:165 and 208 with the error of getDoc not looked at
fetchFailed_never(res) == FALSE

\* api.go:165-167 and 208-210: if err != nil { return err }
fetchFailed(res) == res # "doc"

\* api.go:164-203: the product page gives the title and the link, then the
\* first offers page is asked for
AttemptProduct ==
    /\ spc = "search"
    /\ apc = "product"
    /\ fpc = "ret"
    /\ IF fetchFailed(fres)
       THEN /\ aerr' = fres
            /\ spc' = "result"
            /\ UNCHANGED <<pageVars, fetchVars>>
       ELSE IF ~fdoc.title \/ ~fdoc.link
       THEN /\ aerr' = "error"
            /\ spc' = "result"
            /\ UNCHANGED <<pageVars, fetchVars>>
       ELSE /\ apc' = "offers"
            /\ fetched' = fetched + 1
            /\ getDoc
            /\ UNCHANGED <<spc, aerr, pageno, sha, pagePrices>>
    /\ UNCHANGED <<policyVars, retry, started, ret, countVars, trVars,
                   dedupVars, keyVars, schedVars>>

\* api.go:219-283: after the pagination, the decision policy
decide ==
    LET pid == parseID(pk.query)
        r   == search(item, pid.id, pid.domain, PageLink, PageTitle, pagePrices, maxState)
    IN  /\ item' = r.item
        /\ events' = r.events
        /\ snapshot' = pagePrices
        /\ aerr' = "nil"
        /\ spc' = "result"

\* api.go:203-217: an offers page has been fetched; the loop ends on a page
\* that hashes as the one before or once the page number has passed MaxPage,
\* else the page's prices are taken and the next page asked for
AttemptPage ==
    /\ spc = "search"
    /\ apc = "offers"
    /\ fpc = "ret"
    /\ IF fetchFailed(fres)
       THEN /\ aerr' = fres
            /\ spc' = "result"
            /\ UNCHANGED <<item, snapshot, events, pageVars, fetchVars>>
       ELSE IF fdoc.sha = sha
       THEN /\ decide
            /\ UNCHANGED <<pageVars, fetchVars>>
       ELSE IF pageno > MaxPage
       THEN /\ sha' = fdoc.sha
            /\ decide
            /\ UNCHANGED <<apc, pageno, pagePrices, fetched, fetchVars>>
       ELSE /\ sha' = fdoc.sha
            /\ pageno' = pageno + 1
            /\ pagePrices' = extractPrices(fdoc, pagePrices)
            /\ fetched' = fetched + 1
            /\ getDoc
            /\ UNCHANGED <<item, snapshot, events, spc, aerr, apc>>
    /\ UNCHANGED <<maxState, lowMin, first, retry, started, ret, countVars, trVars,
                   dedupVars, keyVars, schedVars>>

\* api.go:141-142 with every timeout taken for another error
isTimeout_never(e) == FALSE

\* api.go:141-142: errors.As(err, &netErr) && netErr.Timeout()
isTimeout(e) == e = "timeout"

\* api.go:147 with the flag never looked at
secondRetry_never(rt) == FALSE

\* api.go:147: if retry { return err }
secondRetry(rt) == rt

\* api.go:141-153: a timeout starts the next iteration, a retriable error
\* resets the session and is returned the second time, anything else is
\* returned
SearchResult ==
    /\ spc = "result"
    /\ IF isTimeout(aerr)
       THEN /\ timeouts' = timeouts + 1
            /\ spc' = "loop"
            /\ UNCHANGED <<retry, ret, retriables, resets, jar>>
       ELSE IF aerr = "retry"
       THEN /\ resets' = resets + 1
            /\ \E ok \in BOOLEAN : jar' = reset(ok, parseID(pk.query).domain)
            /\ retriables' = retriables + 1
            /\ IF secondRetry(retry)
               THEN ret' = "retry" /\ spc' = "done" /\ UNCHANGED retry
               ELSE retry' = TRUE /\ spc' = "loop" /\ UNCHANGED ret
            /\ UNCHANGED timeouts
       ELSE /\ ret' = aerr
            /\ spc' = "done"
            /\ UNCHANGED <<retry, retriables, timeouts, resets, jar>>
    /\ UNCHANGED <<policyVars, started, aerr, pageVars, fetchVars, item0,
                   paceVars, proxyVars, resetVars, sfetch,
                   dedupVars, keyVars, schedVars>>

\* the context of the client is cancelled while Search runs
ClientCancel ==
    /\ spc # "done"
    /\ ~cancelled
    /\ cancelled' = TRUE
    /\ UNCHANGED <<policyVars, dedupVars, keyVars, searchs, db, pollVars, cmdVars, histVars,
                   clientVars>>

NextClient ==
    \/ SearchCall
    \/ SearchLoop
    \/ FetchDo
    \/ FetchSolve
    \/ AttemptProduct
    \/ AttemptPage
    \/ SearchResult
    \/ ClientCancel

SpecClient == InitClient /\ [][NextClient]_vars

----------------------------------------------------------------------------
(* SpecTransport: the callers of one transport (api.go:640-665) while the
   clock runs, in seconds *)

MaxTime == 7

\* api.go:660: time.After(5000 * time.Millisecond)
Delay == 5

Callers == {1, 2}

\* the proxy argument of the program (cmd/amazbot/main.go:20): none, an HTTP
\* proxy, a SOCKS5 proxy, and one url.Parse refuses (no scheme before "://")
ProxyURLs == {NoProxy, "http://h:1", "socks5://h:1", "://h:1"}

\* url.Parse for the proxy arguments of the model
urlParse(u) ==
    CASE u = "http://h:1"   -> [ok |-> TRUE, scheme |-> "http"]
      [] u = "socks5://h:1" -> [ok |-> TRUE, scheme |-> "socks5"]
      [] OTHER              -> [ok |-> FALSE, scheme |-> ""]

\* api.go:603-631: the error newTransport returns; proxy.SOCKS5 (614) gives
\* no error for a "tcp" network
newTransport(u) ==
    IF u = NoProxy
    THEN "nil"
    ELSE LET p == urlParse(u)
         IN  IF ~p.ok THEN "parse"
             ELSE IF p.scheme # "socks5" THEN "scheme"     \* 625-627
             ELSE "nil"

\* api.go:658-661 with a select that does not wait
elapsed_atOnce(done, t, deadline) == TRUE

\* api.go:658-661: the select returns when the context is done or the timer
\* has fired
elapsed(done, t, deadline) == done \/ t >= deadline

InitTransport ==
    /\ item = ZeroItem
    /\ snapshot = ZeroPrices
    /\ events = <<>>
    /\ maxState = 4
    /\ lowMin = 0
    /\ first = FALSE
    /\ InitDedupVars
    /\ InitKeyVars
    /\ InitSchedVars
    /\ InitSearchVars
    /\ InitSessVars
    /\ tpc = [c \in Callers |-> "idle"]
    /\ lock = 0
    /\ clock = 0
    /\ timer = [c \in Callers |-> 0]
    /\ completed = -1
    /\ lastGap = -1
    /\ proxyURL \in ProxyURLs
    /\ trErr = "none"

\* api.go:52 and 603-631: api.New builds the transport; without one the
\* program ends (amazbot.go:44-47)
TrNew ==
    /\ trErr = "none"
    /\ trErr' = newTransport(proxyURL)
    /\ UNCHANGED <<proxyURL, paceVars, resetVars, sessVars, searchVars, pageVars, fetchVars,
                   countVars, policyVars, dedupVars, keyVars, schedVars>>

\* api.go:641-654: a caller enters RoundTrip and sets the headers
TrEnter(c) ==
    /\ trErr = "nil"
    /\ tpc[c] = "idle"
    /\ tpc' = [tpc EXCEPT ![c] = "lock"]
    /\ UNCHANGED <<lock, clock, timer, completed, lastGap, proxyVars, resetVars, sessVars, searchVars, pageVars, fetchVars,
                   countVars, policyVars, dedupVars, keyVars, schedVars>>

\* api.go:656 and 664: the lock is taken and the request sent
TrLock(c) ==
    /\ tpc[c] = "lock"
    /\ lock = 0
    /\ lock' = c
    /\ tpc' = [tpc EXCEPT ![c] = "flight"]
    /\ lastGap' = IF completed = -1 THEN -1 ELSE clock - completed
    /\ UNCHANGED <<clock, timer, completed, proxyVars, resetVars, sessVars, searchVars, pageVars, fetchVars,
                   countVars, policyVars, dedupVars, keyVars, schedVars>>

\* api.go:664 and 657-660: the response is received and the deferred
\* function starts its timer
TrResponse(c) ==
    /\ tpc[c] = "flight"
    /\ completed' = clock
    /\ timer' = [timer EXCEPT ![c] = clock + Delay]
    /\ tpc' = [tpc EXCEPT ![c] = "delay"]
    /\ UNCHANGED <<lock, clock, lastGap, proxyVars, resetVars, sessVars, searchVars, pageVars, fetchVars,
                   countVars, policyVars, dedupVars, keyVars, schedVars>>

\* api.go:658-662: the select returns and the lock is released
TrUnlock(c) ==
    /\ tpc[c] = "delay"
    /\ elapsed(cancelled, clock, timer[c])
    /\ lock' = 0
    /\ tpc' = [tpc EXCEPT ![c] = "idle"]
    /\ UNCHANGED <<clock, timer, completed, lastGap, proxyVars, resetVars, sessVars, searchVars, pageVars, fetchVars,
                   countVars, policyVars, dedupVars, keyVars, schedVars>>

\* a second passes
TrTick ==
    /\ clock < MaxTime
    /\ clock' = clock + 1
    /\ UNCHANGED <<tpc, lock, timer, completed, lastGap, proxyVars, resetVars, sessVars, searchVars, pageVars, fetchVars,
                   countVars, policyVars, dedupVars, keyVars, schedVars>>

\* the context of the transport is cancelled
TrCancel ==
    /\ ~cancelled
    /\ cancelled' = TRUE
    /\ UNCHANGED <<policyVars, dedupVars, keyVars, searchs, db, pollVars, cmdVars, histVars,
                   clientVars>>

NextTransport ==
    \/ TrNew
    \/ \E c \in Callers : TrEnter(c)
    \/ \E c \in Callers : TrLock(c)
    \/ \E c \in Callers : TrResponse(c)
    \/ \E c \in Callers : TrUnlock(c)
    \/ TrTick
    \/ TrCancel

SpecTransport == InitTransport /\ [][NextTransport]_vars

----------------------------------------------------------------------------
(* Claims about the price decision policy, checked under SpecPolicy *)

Emitted(i) == \E k \in DOMAIN events : events[k] = i

\* C1: the stored minPrice never increases: once it has held a nonzero value
\* it is never later (after being put back to 0) set to a higher one.
C1_MinPriceNeverIncreases ==
    (item.MinPrice # 0 /\ lowMin # 0) => item.MinPrice <= lowMin

\* C2: a tier-0 event is emitted only if snapshot[0] is nonzero and strictly
\* lower than the minPrice stored before the cycle.
C2_Tier0OnlyBelowStoredMin ==
    [][(\E k \in DOMAIN events' : events'[k] = 0)
         => (snapshot'[0] # 0 /\ snapshot'[0] < item.MinPrice)]_vars

C2_Witness == Emitted(0) /\ lowMin # 0 /\ snapshot[0] < lowMin

\* C3 as stated: no event for a used tier i in 1..4 when snapshot[i] >= the
\* item's minPrice as current in that cycle, also when tier 0 is not observed.
C3_UsedNeverAtOrAboveMin ==
    \A i \in 1..4 : Emitted(i) => snapshot[i] < item.MinPrice

\* C3 amended: no event for a used tier i in 1..4 when the item's current
\* minPrice is nonzero and snapshot[i] >= that minPrice.
C3_UsedNeverAtOrAboveKnownMin ==
    \A i \in 1..4 :
        (item.MinPrice > 0 /\ snapshot[i] >= item.MinPrice) => ~Emitted(i)

C3_Witness ==
    \E i \in 1..4 :
        /\ i <= maxState
        /\ item.MinPrice > 0
        /\ snapshot[i] >= item.MinPrice
        /\ ~Emitted(i)
        /\ \E j \in 1..4 : Emitted(j)

\* C4: stored minPrice 50.00 and prices [50,0,0,0,0], snapshot
\* [45.00,30.00,0,0,0], maxTier >= 1: exactly the events tier 0 then tier 1,
\* and minPrice = 45.00, prices = [45,30,0,0,0] afterwards.
C4_ScenarioTwoEvents ==
    [][(/\ item.MinPrice = 50000
        /\ item.Prices = Vec(50000, 0, 0, 0, 0)
        /\ snapshot' = Vec(45000, 30000, 0, 0, 0)
        /\ maxState >= 1)
         => (/\ events' = <<0, 1>>
             /\ item'.MinPrice = 45000
             /\ item'.Prices = Vec(45000, 30000, 0, 0, 0))]_vars

C4_Witness ==
    /\ lowMin = 50000
    /\ snapshot = Vec(45000, 30000, 0, 0, 0)
    /\ events = <<0, 1>>
    /\ item.MinPrice = 45000
    /\ item.Prices = Vec(45000, 30000, 0, 0, 0)

\* C5: a used price is compared with the minPrice already updated by the
\* tier-0 price of the same snapshot: when snapshot[0] is a new minimum no
\* used tier at or above snapshot[0] is emitted, and stored minPrice 50.00
\* with snapshot [45.00,46.00,0,0,0] emits the tier-0 event only.
C5_UsedComparedWithUpdatedMin ==
    [][/\ \A i \in 1..4 :
            (/\ snapshot'[0] # 0
             /\ item.MinPrice # 0
             /\ snapshot'[0] < item.MinPrice
             /\ snapshot'[i] >= snapshot'[0])
              => ~(\E k \in DOMAIN events' : events'[k] = i)
       /\ (/\ item.MinPrice = 50000
           /\ item.Prices = Vec(50000, 0, 0, 0, 0)
           /\ snapshot' = Vec(45000, 46000, 0, 0, 0))
            => events' = <<0>>]_vars

C5_Witness ==
    /\ lowMin = 50000
    /\ maxState >= 1
    /\ snapshot = Vec(45000, 46000, 0, 0, 0)
    /\ events = <<0>>
    /\ item.MinPrice = 45000

\* C6: the first successful extraction for a key (no stored item) emits no
\* tier-0 event whatever snapshot[0] is and sets minPrice to snapshot[0];
\* snapshot [20.00,0,0,0,0] gives no event at all and minPrice 20.00.
C6_FirstRunNoTier0Event ==
    [][(item.ID = <<>> /\ found(snapshot'))
         => (/\ ~(\E k \in DOMAIN events' : events'[k] = 0)
             /\ item'.MinPrice = snapshot'[0]
             /\ snapshot' = Vec(20000, 0, 0, 0, 0)
                  => (events' = <<>> /\ item'.MinPrice = 20000))]_vars

C6_Witness ==
    /\ first
    /\ maxState >= 0
    /\ snapshot = Vec(20000, 0, 0, 0, 0)
    /\ events = <<>>
    /\ item.MinPrice = 20000

----------------------------------------------------------------------------
(* Claims about the dedup cache, checked under SpecDedup *)

\* C7: for every fingerprint (destination, item id, tier, price rounded to
\* 2 decimals) a message is sent at most once within one TTL window counted
\* from the time it was recorded: two messages for the same fingerprint are
\* more than TTL apart.
C7_AtMostOncePerWindow ==
    \A k \in DOMAIN sent :
        \A m, n \in DOMAIN sent[k] :
            m < n => sent[k][n] > sent[k][m] + TTL

\* a fingerprint was notified, suppressed during its window, and notified
\* again after the entry expired
C7_Witness ==
    \E k \in DOMAIN sent :
        /\ Len(sent[k]) = 2
        /\ sent[k][2] > sent[k][1] + TTL

----------------------------------------------------------------------------
(* Claims about search keys, checked under SpecKeys *)

\* C10: every key a command stores in the active set parses back to itself:
\* parseArgs(k, "").id = k.
C10_StoredKeyRoundTrip == kpc = "polled" => parsed.id = stored

----------------------------------------------------------------------------
(* Claims about the scheduler, checked under Spec *)

\* C8: once a stop (or stop-all) of a key has completed, the scheduler
\* neither re-inserts the key into the active set nor puts its item into the
\* store: the key stays absent from both until it is registered again.
C8_StoppedKeyStaysAbsent ==
    \A k \in stopped : k \notin DOMAIN searchs /\ k \notin DOMAIN db

\* C9: stop-all removes every key that is in the active set when it runs
\* and issues exactly one store delete for each of them; when it has
\* returned and no poll is in progress the active set is empty.
C9_StopAllClearsEveryKey ==
    cpc = "stoppedAll" =>
        /\ Len(deletes) = Cardinality(ranged)
        /\ {deletes[i] : i \in DOMAIN deletes} = ranged
        /\ ~InSearch => DOMAIN searchs = {}

----------------------------------------------------------------------------
(* Claims about the canonical key, checked under SpecInject *)

\* C11: the canonical key form is injective: the key a command renders
\* differs from the key of every other normalized (destination, query) pair
\* parseArgs can return.
C11_CanonicalKeyInjective ==
    kpc = "stored" =>
        \A q \in AllParsed :
            (q.chat # parsed.chat \/ q.query # parsed.query) => q.id # stored

\* a key whose destination holds a "/" has been rendered while another pair
\* shares its query
C11_Witness ==
    /\ kpc = "stored"
    /\ \E i \in DOMAIN parsed.chat : parsed.chat[i] = "/"
    /\ parsed.query # <<>>
    /\ \E q \in AllParsed : q.query = parsed.query /\ q.chat # parsed.chat

----------------------------------------------------------------------------
(* Claims about Client.Search, checked under SpecClient *)

\* C12 as stated: in one extraction the pagination fetches at most 11 offers
\* pages, even when every page hashes differently from the one before.
C12_AtMostElevenPages == fetched <= 11

\* C13: within one Search call the first retriable failure of an extraction
\* attempt resets the session and is retried once, the second one resets the
\* session and is returned: at most two attempts end in a retriable failure,
\* whatever number of timeouts lies between them.
C13_RetriableAttemptsBounded ==
    /\ retriables <= 2
    /\ retriables >= 1 => retry /\ resets >= retriables
    /\ retriables = 1 => ret # "retry"
    /\ retriables = 2 => spc = "done" /\ ret = "retry"

C13_Witness == retriables = 2 /\ timeouts = MaxTimeouts /\ ret = "retry"

\* C14: a timeout of an extraction attempt is never returned by Search: the
\* next iteration starts at once, with nothing counted against it; and when
\* cancellation is seen at the top of an iteration Search returns nil with
\* the item as it was at the call.
C14_TimeoutNeverSurfaced ==
    [][spc' # spc =>
          /\ (spc = "result" /\ aerr = "timeout")
                => (spc' = "loop" /\ ret' = "none" /\ retry' = retry /\ resets' = resets)
          /\ (spc = "loop" /\ cancelled)
                => (spc' = "done" /\ ret' = "nil" /\ item' = item0)
          /\ (spc = "loop" /\ ~cancelled)
                => (spc' = "search" /\ ret' = "none")]_vars

\* Search returned nil on cancellation after MaxTimeouts timeouts in a row
C14_Witness ==
    /\ spc = "done"
    /\ aerr = "timeout"
    /\ ret = "nil"
    /\ timeouts = MaxTimeouts
    /\ item = item0

\* C15: a fetch is recursion-bounded at depth 2: it issues at most 3 requests
\* and calls the solver at most 3 times, and after three solved captchas it
\* fails with the recursion error instead of a fourth request.
C15_FetchRecursionBounded ==
    /\ depth <= MaxDepth + 1
    /\ requests <= 3
    /\ solves <= 3
    /\ fres = "recursion" => requests = 3 /\ solves = 3 /\ fpc = "ret"
    /\ (depth = MaxDepth + 1 /\ fpc = "ret") => fres = "recursion"

C15_Witness == fres = "recursion" /\ requests = 3 /\ solves = 3

\* C20: when the pagination gives no nonzero price for any tier the
\* extraction returns nil, no event is emitted and the item (id, title, link,
\* minPrice and the five prices) is as it was before.
C20_NoPricesNoChange ==
    (spc \in {"result", "done"} /\ aerr = "nil" /\ fetched > 0 /\ pagePrices = ZeroPrices)
        => /\ item = item0
           /\ events = <<>>
           /\ spc = "done" => ret = "nil"

\* a stored item came back untouched from a pagination of two pages
C20_Witness ==
    /\ spc = "done"
    /\ aerr = "nil"
    /\ ret = "nil"
    /\ fetched >= 2
    /\ pagePrices = ZeroPrices
    /\ item0.ID # <<>>
    /\ item = item0

----------------------------------------------------------------------------
(* Claims about the transport, checked under SpecTransport *)

\* C16 as stated: at most one request is in flight at a time, and every
\* request starts at least the fixed delay after the response before it was
\* received.
C16_OneInFlightThenDelay ==
    /\ Cardinality({c \in Callers : tpc[c] = "flight"}) <= 1
    /\ lastGap # -1 => lastGap >= Delay

\* C16, amended: at most one request is in flight at a time, the lock is
\* held from the start of a request until its release, and a request starts
\* less than the fixed delay after the response before it only when the
\* context has been cancelled.
C16_OneInFlightDelayUnlessCancelled ==
    /\ Cardinality({c \in Callers : tpc[c] = "flight"}) <= 1
    /\ \A c \in Callers : tpc[c] \in {"flight", "delay"} <=> lock = c
    /\ (lastGap # -1 /\ lastGap < Delay) => cancelled

\* a caller that waited for the lock sent its request exactly the delay
\* after the response of the other one
C16_Witness ==
    /\ ~cancelled
    /\ lastGap = Delay
    /\ \E c \in Callers : tpc[c] = "flight"

----------------------------------------------------------------------------
(* Claims about the polling cycle, checked under Spec *)

\* the keys of a sequence
Keys(q) == {q[i] : i \in DOMAIN q}

\* C17: a per-key failure never ends the polling loop and never aborts the
\* rest of the cycle: the loop ends only on cancellation, a cycle ends only
\* when no key of its snapshot is left, and every key of the snapshot has had
\* its turn or is still to come, whichever keys failed.
C17_FailureNeverStopsPolling ==
    /\ ppc = "done" => cancelled
    /\ ppc = "sleep" => pkeys = <<>>
    /\ failed \subseteq Keys(visited)
    /\ cycle = Keys(visited) \cup skipped \cup Keys(pkeys)

\* the search of the first key failed and the loop is at the second one
C17_Witness ==
    /\ Len(visited) = 2
    /\ visited[1] \in failed
    /\ ppc = "get"
    /\ pk.id = visited[2]

C19_AscendingOncePerCycle ==
    /\ \A i, j \in DOMAIN visited : i < j => Less(visited[i], visited[j])
    /\ \A i \in DOMAIN visited : \A j \in DOMAIN pkeys : Less(visited[i], pkeys[j])
    /\ \A i, j \in DOMAIN pkeys : i < j => Less(pkeys[i], pkeys[j])

C19_Witness == Len(visited) = 2 /\ Less(visited[1], visited[2]) /\ ppc = "sleep"

----------------------------------------------------------------------------
----------------------------------------------------------------------------
(* SpecSession: calls of Client.Search (api.go:122-155), one after the
   other, for products of several domains on the one client of the program
   (amazbot.go:44); each step is a call up to its loop, or one iteration of
   the loop.  What an attempt does to the item is left to SpecClient. *)

\* the ids Search is called with, of three domains
SessionKeys ==
    {<<"1", "/">> \o XKey, <<"1", "/", "x", ".", "d", "e">>, <<"1", "/", "x", ".", "i", "t">>}

InitSession ==
    /\ item = ZeroItem
    /\ snapshot = ZeroPrices
    /\ events = <<>>
    /\ maxState = 4
    /\ lowMin = 0
    /\ first = FALSE
    /\ InitDedupVars
    /\ InitKeyVars
    /\ InitSchedVars
    /\ InitClientVars

\* api.go:122-133: Search is called; the domain's session is set up on its
\* first use
SessCall(k) ==
    /\ spc \in {"call", "done"}
    /\ pk' = parseArgs(k, <<>>)
    /\ LET pid == parseID(pk'.query)
       IN  /\ maxState' = pid.maxState
           /\ retry' = FALSE
           /\ IF ~firstUse(started, pid.domain)
              THEN /\ spc' = "loop"
                   /\ ret' = "none"
                   /\ UNCHANGED <<started, jar>>
              ELSE \E ok \in BOOLEAN :
                      /\ jar' = reset(ok, pid.domain)
                      /\ IF ok
                         THEN /\ started' = started \cup {pid.domain}
                              /\ spc' = "loop"
                              /\ ret' = "none"
                         ELSE /\ spc' = "done"
                              /\ ret' = "error"
                              /\ UNCHANGED started
    /\ UNCHANGED <<item, snapshot, events, lowMin, first, dedupVars, keyVars, searchs, db,
                   ppc, pkeys, cycleVars, cmdVars, cancelled, histVars, aerr, pageVars,
                   fetchVars, countVars, paceVars, proxyVars, resetVars, sfetch>>

\* api.go:134-154: one iteration of the loop of Search: the attempt starts
\* with the fetch of the product page (164) in the session as it is
SessAttempt ==
    /\ spc = "loop"
    /\ IF cancelled
       THEN /\ ret' = "nil"
            /\ spc' = "done"
            /\ UNCHANGED <<retry, aerr, jar, sfetch>>
       ELSE LET domain == parseID(pk.query).domain
            IN  /\ sfetch' = [domain |-> domain, located |-> domain \in jar]
                /\ \E e \in {"nil", "timeout", "retry", "error"} :
                      /\ aerr' = e
                      /\ IF isTimeout(e)
                         THEN UNCHANGED <<spc, retry, ret, jar>>
                         ELSE IF e = "retry"
                         THEN /\ \E ok \in BOOLEAN : jar' = reset(ok, domain)
                              /\ IF secondRetry(retry)
                                 THEN ret' = "retry" /\ spc' = "done" /\ UNCHANGED retry
                                 ELSE retry' = TRUE /\ UNCHANGED <<spc, ret>>
                         ELSE /\ ret' = e
                              /\ spc' = "done"
                              /\ UNCHANGED <<retry, jar>>
    /\ UNCHANGED <<policyVars, dedupVars, keyVars, schedVars, started, pageVars, fetchVars,
                   countVars, paceVars, proxyVars, resetVars>>

\* the context of the client is cancelled
SessCancel ==
    /\ ~cancelled
    /\ cancelled' = TRUE
    /\ UNCHANGED <<policyVars, dedupVars, keyVars, searchs, db, pollVars, cmdVars, histVars,
                   clientVars>>

NextSession ==
    \/ \E k \in SessionKeys : SessCall(k)
    \/ SessAttempt
    \/ SessCancel

SpecSession == InitSession /\ [][NextSession]_vars

\* C25: session state is kept per domain: a reset for domain B leaves the
\* cookie store and the established delivery location of another domain A
\* unchanged, so whenever an item page is fetched for A the session in use
\* is one in which A's delivery location has been established.
C25_SessionPerDomain ==
    [][/\ \A a \in jar : a # parseID(pk'.query).domain => a \in jar'
       /\ sfetch'.located]_vars

----------------------------------------------------------------------------
(* SpecPrices: extractPrices (api.go:285-347) applied to an offers page of
   amazon.es and to the price vector of the pages before it *)

MaxOffers == 2

\* listed prices and delivery fees, in mills
ListedPrices == {0, 20000, 45000}
Deliveries   == {<<0, 0>>, <<5000, 0>>, <<5000, 3000>>}

Offers ==
    {Offer(h, l, dl[1], dl[2]) :
        h \in {NewHeading, LikeHeading, OddHeading}, l \in ListedPrices, dl \in Deliveries}

RECURSIVE Pages(_)
\* the offer blocks of a page, up to n of them
Pages(n) ==
    IF n = 0 THEN {<<>>}
    ELSE LET shorter == Pages(n - 1)
         IN  shorter \cup {Append(pg, o) : pg \in {x \in shorter : Len(x) = n - 1}, o \in Offers}

\* the vector the pages before gave
Incoming == {ZeroPrices, Vec(30000, 0, 0, 0, 0), Vec(50000, 23000, 0, 0, 0)}

InitPrices ==
    /\ item = ZeroItem
    /\ snapshot = ZeroPrices
    /\ events = <<>>
    /\ maxState = 4
    /\ lowMin = 0
    /\ first = FALSE
    /\ InitDedupVars
    /\ InitKeyVars
    /\ InitSchedVars
    /\ spc = "search"
    /\ retry = FALSE
    /\ started = {<<"e", "s">>}
    /\ aerr = "nil"
    /\ ret = "none"
    /\ apc = "offers"
    /\ pageno = 0
    /\ sha = 0
    /\ pagePrices \in Incoming
    /\ fetched = 0
    /\ fpc = "ret"
    /\ depth = 0
    /\ fres = "doc"
    /\ fdoc \in {Doc(TRUE, TRUE, 1, pg) : pg \in Pages(MaxOffers)}
    /\ requests = 1
    /\ solves = 0
    /\ status = "200"
    /\ form = NoForm
    /\ retriables = 0
    /\ timeouts = 0
    /\ resets = 0
    /\ item0 = ZeroItem
    /\ InitTransportVars
    /\ jar = started
    /\ sfetch = NoFetch
    /\ InitResetVars

\* api.go:215: prices = extractPrices(domain, id, doc, prices); the vector
\* is kept in snapshot, next to the incoming one
ExtractPage ==
    /\ fetched = 0
    /\ snapshot' = extractPrices(fdoc, pagePrices)
    /\ fetched' = 1
    /\ UNCHANGED <<item, events, maxState, lowMin, first, dedupVars, keyVars, schedVars,
                   searchVars, apc, pageno, sha, pagePrices, fetchVars, countVars, trVars>>

NextPrices == ExtractPage

SpecPrices == InitPrices /\ [][NextPrices]_vars

\* the least element of a nonempty set of numbers
Least(S) == CHOOSE m \in S : \A x \in S : m <= x

\* C29: extractPrices returns, for each of the five tiers, the minimum over
\* the incoming nonzero value for that tier and the totals (listed price +
\* delivery fee, delivery 0 when none matches) of all offers on the page
\* whose condition label maps to that tier; tiers with no offer keep their
\* incoming value (0 if none), and offers with an unrecognized label change
\* nothing.
C29_MinimumPerTier ==
    fetched = 1 =>
        \A i \in States :
            LET mine   == {k \in DOMAIN fdoc.offers :
                              /\ headingState(fdoc.offers[k].heading) = i
                              /\ fdoc.offers[k].listed # 0}
                totals == {fdoc.offers[k].listed + deliveryOf(fdoc.offers[k]) : k \in mine}
                cands  == totals \cup ({pagePrices[i]} \ {0})
            IN  /\ snapshot[i] = IF cands = {} THEN 0 ELSE Least(cands)
                /\ mine = {} => snapshot[i] = pagePrices[i]

\* an offer of the new tier with both delivery texts, below the incoming
\* price, and a cheaper offer whose label is of no tier; the incoming used
\* price is kept
C29_Witness ==
    /\ fetched = 1
    /\ pagePrices = Vec(50000, 23000, 0, 0, 0)
    /\ Len(fdoc.offers) = 2
    /\ fdoc.offers[1] = Offer(NewHeading, 45000, 5000, 3000)
    /\ fdoc.offers[2] = Offer(OddHeading, 20000, 0, 0)
    /\ snapshot = Vec(48000, 23000, 0, 0, 0)

\* C21: an invalid search key is rejected at parse time and never stored:
\* whatever the argument of a search or batch command, the key the command
\* stores in the active set has a query that is a well-formed product
\* reference (it has a ".<domain>" part, and its maximum-tier suffix, if any,
\* is an integer in 0..4); after a command with any other argument the active
\* set is unchanged.
C21_InvalidKeyNeverStored ==
    stored # NoKey =>
        LET p == parseID(parseArgs(stored, <<>>).query)
        IN  p.ok /\ p.maxState \in States

----------------------------------------------------------------------------
\* C22: for a key with maximum-tier filter m no event is emitted for a tier
\* index greater than m; a key without a suffix has m = 4, so that all five
\* tiers are eligible; and the stored price vector is the whole extracted
\* vector, all five tiers, whatever m is.
C22_NoEventAboveMaxTier ==
    /\ \A k \in DOMAIN events : events[k] <= maxState
    /\ snapshot # ZeroPrices => item.Prices = snapshot
    /\ parseID(XKey).maxState = 4
    /\ parseID(YKey).maxState = 0

\* filter 0: the new tier is notified, the cheaper used price of the same
\* extraction is stored and not notified
C22_Witness ==
    /\ maxState = 0
    /\ events = <<0>>
    /\ snapshot[0] = 45000
    /\ snapshot[1] = 30000
    /\ item.Prices = snapshot

----------------------------------------------------------------------------
\* the same string with the case of every letter changed
SwapCase(s) ==
    [i \in DOMAIN s |-> CASE s[i] = "a" -> "A" [] s[i] = "A" -> "a"
                          [] s[i] = "b" -> "B" [] s[i] = "B" -> "b"
                          [] OTHER -> s[i]]

\* the same string with a space before and after
Padded(s) == <<" ">> \o s \o <<" ">>

\* C23 (as stated): parsing a key lower-cases and trims both the destination
\* and the query, so two command arguments that differ only in letter case or
\* in surrounding spaces, in the destination or in the query, produce the
\* same canonical key and register one tracked search.
C23_CaseAndSpaceInsensitive ==
    kpc = "stored" =>
        /\ parseArgs(Padded(args), Padded(userChat)).id = stored
        /\ parseArgs(args, SwapCase(userChat)).id = stored
        /\ parseArgs(SwapCase(args), userChat).id = stored

\* C23 (amended): parsing a key lower-cases and trims the destination and
\* trims the query without changing its letter case; two command arguments
\* that differ only in surrounding spaces, or in the letter case of the
\* destination, produce the same canonical key, and two that differ in the
\* letter case of the query produce two different keys.
C23_QueryCaseKept ==
    kpc = "stored" =>
        /\ parseArgs(Padded(args), Padded(userChat)).id = stored
        /\ parseArgs(args, SwapCase(userChat)).id = stored
        /\ parseArgs(SwapCase(args), userChat).chat = parsed.chat
        /\ parseArgs(SwapCase(args), userChat).query = SwapCase(parsed.query)
        /\ parseArgs(SwapCase(args), userChat).id = stored
               <=> SwapCase(parsed.query) = parsed.query

\* a command whose destination and query both have a letter
C23_Witness ==
    /\ kpc = "stored"
    /\ parsed.chat # <<>>
    /\ SwapCase(parsed.chat) # parsed.chat
    /\ SwapCase(parsed.query) # parsed.query
    /\ parseArgs(SwapCase(args), userChat).id # stored
    /\ parseArgs(args, SwapCase(userChat)).id = stored

----------------------------------------------------------------------------
\* C24: constructing the transport with no proxy, with an HTTP proxy URL or
\* with a SOCKS5 proxy URL succeeds; construction fails only when the proxy
\* configuration is malformed (it does not parse as a URL).
C24_ProxyKindsConstruct ==
    trErr # "none" =>
        (trErr # "nil" <=> proxyURL # NoProxy /\ ~urlParse(proxyURL).ok)

----------------------------------------------------------------------------
\* C26: at startup every key found in the persistence bucket that parses is
\* put into the active set with no last-known item (every key parses), and
\* no persistence delete or put is issued for any key during the reload.
C26_ReloadLoadsEveryKey ==
    [][ppc = "load" /\ ppc' # "load" =>
          /\ DOMAIN searchs' = DOMAIN db
          /\ \A k \in DOMAIN searchs' : searchs'[k] = Nil
          /\ \A k \in DOMAIN db : parseArgs(k, <<>>).id = k
          /\ db' = db]_vars

\* the program has just started on a bucket of two keys
C26_Witness ==
    /\ ppc = "range"
    /\ cpc = "idle"
    /\ cycle = {}
    /\ Cardinality(DOMAIN db) = 2
    /\ DOMAIN searchs = DOMAIN db
    /\ \A k \in DOMAIN db : searchs[k] = Nil /\ db[k].MinPrice # 0

----------------------------------------------------------------------------
\* C27: after the cancellation signal is raised the polling loop eventually
\* exits; once it has observed cancellation, before a key or at the sleep
\* between two cycles, it starts processing no further key, and from the
\* sleep it exits instead of starting another cycle.
C27_PollingExitsOnCancel ==
    /\ cancelled ~> ppc = "done"
    /\ [][/\ cancelled /\ ppc = "next" /\ ppc' # ppc =>
                ppc' \in {"done", "sleep"} /\ visited' = visited /\ pkeys' = pkeys
          /\ cancelled /\ ppc = "sleep" /\ ppc' # ppc => ppc' = "done"
          /\ ppc = "done" => ppc' = "done"]_vars

\* the loop has exited with a key of its cycle left unvisited
C27_Witness ==
    /\ cancelled
    /\ ppc = "done"
    /\ pkeys # <<>>
    /\ visited # <<>>

----------------------------------------------------------------------------
\* C28: stop(key) removes exactly that key from the active set and issues
\* exactly one persistence delete for it; every other key and its last-known
\* item is unchanged; stop of a key that is not active changes nothing and
\* issues no delete.
C28_StopRemovesExactlyItsKey ==
    [][cpc' # cpc =>
          /\ cpc = "stop" =>
                /\ searchs' = searchs /\ db' = db /\ deletes' = <<>>
                /\ cpc' = IF ck.id \in DOMAIN searchs THEN "stopDelete" ELSE "stopped"
          /\ cpc = "stopDelete" =>
                /\ DOMAIN searchs' = DOMAIN searchs \ {ck.id}
                /\ \A k \in DOMAIN searchs' : searchs'[k] = searchs[k]
                /\ db' = db /\ deletes' = <<>>
                /\ cpc' = "stopDbDelete"
          /\ cpc = "stopDbDelete" =>
                /\ DOMAIN db' = DOMAIN db \ {ck.id}
                /\ \A k \in DOMAIN db' : db'[k] = db[k]
                /\ searchs' = searchs /\ deletes' = <<ck.id>>
                /\ cpc' = "stopped"
          /\ cpc = "stopped" =>
                /\ searchs' = searchs /\ db' = db
                /\ cpc' = "idle"]_vars

\* a stop has deleted its key and left the other key with its item
C28_Witness ==
    /\ cpc = "stopped"
    /\ deletes = <<ck.id>>
    /\ ck.id \notin DOMAIN searchs
    /\ ck.id \notin DOMAIN db
    /\ \E k \in DOMAIN searchs : ~searchs[k].nil /\ k \in DOMAIN db

----------------------------------------------------------------------------
\* C30: a response with status 502 or 503 makes the fetch fail with a
\* Retriable error, and a 503 triggers a session reset; a response with any
\* other status than 200 or 202 makes the fetch fail with a non-retriable
\* status error, which Search surfaces at once with no reset and no retry.
C30_StatusClasses ==
    [][/\ fpc = "do" /\ fpc' = "ret" /\ status' \in {"502", "503"} => fres' = "retry"
       /\ fpc = "do" /\ fpc' = "ret" /\ status' = "404" => fres' = "error"
       /\ spc = "result" /\ spc' # spc /\ status = "503" =>
             aerr = "retry" /\ resets' = resets + 1
       /\ spc = "result" /\ spc' # spc /\ status = "404" =>
             /\ aerr = "error"
             /\ spc' = "done" /\ ret' = "error"
             /\ resets' = resets /\ retry' = retry /\ retriables' = retriables]_vars

\* Search has reset the session after a 503 and goes on to its second attempt
C30_Witness ==
    /\ spc = "loop"
    /\ status = "503"
    /\ retry
    /\ retriables = 1
    /\ resets >= 1



\* ---------------------------------------------------------------------
\* reset(domain) and changeLocation (api.go:490-592)

MaxScripts == 2

\* an inline script of the modal response: whether it holds CSRF_TOKEN
\* followed by a quoted text, and that text (api.go:550-559)
Script(has, tok) == [has |-> has, tok |-> tok]

Scripts == {Script(FALSE, ""), Script(TRUE, ""), Script(TRUE, "a"), Script(TRUE, "b")}

ScriptLists == UNION {[1..n -> Scripts] : n \in 0..MaxScripts}

\* the root page of the domain: whether #glow-ingress-line2 holds the
\* postal code, and the modal descriptor of its data-a-modal attribute
RootPages ==
    {[hasLocation |-> h, modal |-> m] :
        h \in BOOLEAN, m \in {NoModal, Modal("/modal", "t0")}}

\* api.go:548-565: the loop over the scripts: a script without the token
\* is passed over, an empty token ends the loop, any other is kept and the
\* loop goes on
RECURSIVE findToken(_, _)
findToken(ss, tok) ==
    IF ss = <<>> THEN tok
    ELSE IF ~Head(ss).has THEN findToken(Tail(ss), tok)
    ELSE IF Head(ss).tok = "" THEN ""
    ELSE findToken(Tail(ss), Head(ss).tok)

\* api.go:567-581: the form of the POST
locationForm(domain) == IF domain = "es" THEN "LOCATION_INPUT" ELSE "COUNTRY"

InitReset ==
    /\ item = ZeroItem
    /\ snapshot = ZeroPrices
    /\ events = <<>>
    /\ maxState = 4
    /\ lowMin = 0
    /\ first = FALSE
    /\ InitDedupVars
    /\ InitKeyVars
    /\ InitSchedVars
    /\ InitSearchVars
    /\ InitTransportVars
    /\ jar = {}
    /\ sfetch = NoFetch
    /\ rpc = "reset"
    /\ rdomain \in {"es", "de"}
    /\ modal = NoModal
    /\ scripts = <<>>
    /\ token = ""
    /\ posts = <<>>
    /\ rerr = "none"

\* api.go:490-517: a new jar, the root page, and the location looked for
ResetRoot ==
    /\ rpc = "reset"
    /\ \E e \in {"nil", "error"} :
          IF e # "nil"
          THEN rpc' = "done" /\ rerr' = e /\ UNCHANGED modal
          ELSE \E page \in RootPages :
                  IF page.hasLocation
                  THEN rpc' = "done" /\ rerr' = "nil" /\ UNCHANGED modal
                  ELSE rpc' = "change" /\ modal' = page.modal /\ UNCHANGED rerr
    /\ UNCHANGED <<rdomain, scripts, token, posts, policyVars, dedupVars, keyVars, schedVars,
                   searchVars, pageVars, fetchVars, countVars, paceVars, proxyVars, sessVars>>

\* api.go:520-565: the modal descriptor, the GET of its url, and the token
\* taken from the scripts of the response
ChangeModal ==
    /\ rpc = "change"
    /\ IF modal.URL = ""
       THEN rpc' = "done" /\ rerr' = "error" /\ UNCHANGED <<scripts, token>>
       ELSE \E e \in {"nil", "error"} :
               IF e # "nil"
               THEN rpc' = "done" /\ rerr' = e /\ UNCHANGED <<scripts, token>>
               ELSE \E ss \in ScriptLists :
                       /\ scripts' = ss
                       /\ token' = findToken(ss, "")
                       /\ rpc' = "post"
                       /\ UNCHANGED rerr
    /\ UNCHANGED <<rdomain, modal, posts, policyVars, dedupVars, keyVars, schedVars,
                   searchVars, pageVars, fetchVars, countVars, paceVars, proxyVars, sessVars>>

\* api.go:567-591: the POST of the form with the token in its header
ChangePost ==
    /\ rpc = "post"
    /\ posts' = Append(posts, [token |-> token, form |-> locationForm(rdomain)])
    /\ \E e \in {"nil", "error"} : rerr' = e
    /\ rpc' = "done"
    /\ UNCHANGED <<rdomain, modal, scripts, token, policyVars, dedupVars, keyVars, schedVars,
                   searchVars, pageVars, fetchVars, countVars, paceVars, proxyVars, sessVars>>

NextReset ==
    \/ ResetRoot
    \/ ChangeModal
    \/ ChangePost

SpecReset == InitReset /\ [][NextReset]_vars

\* C32: in the location-change flow a missing modal descriptor or a missing
\* CSRF token makes the reset fail: with no descriptor the reset ends in an
\* error with no POST sent, and every POST sent carries a non-empty token
\* that a script of the modal response held.
C32_PostNeedsToken ==
    /\ modal.URL = "" => posts = <<>>
    /\ rpc = "done" /\ posts = <<>> /\ modal.URL # "" => rerr # "nil"
    /\ \A i \in 1..Len(posts) :
          /\ posts[i].token # ""
          /\ \E j \in 1..Len(scripts) : scripts[j].has /\ scripts[j].tok = posts[i].token

\* ---------------------------------------------------------------------
\* The command loop and who may use it (amazbot.go:137-299)

\* amazbot.go:31: the admin and the users Run is given, and a user it is not
Admin   == 1
Allowed == {2}
Users   == {Admin} \cup Allowed \cup {3}

\* strconv.Itoa for one digit
Itoa(n) == <<CHOOSE c \in DOMAIN Digit : Digit[c] = n>>

\* userChats[user]: a Go map gives "" for a key it does not hold
chatOf(m, user) == IF user \in DOMAIN m THEN m[user] ELSE <<>>

\* amazbot.go:195 with every user taken for a valid one
valid_always(m, user) == TRUE

\* amazbot.go:195: _, ok := userChats[user]
valid(m, user) == user \in DOMAIN m

RECURSIVE storeAll(_, _, _)
\* amazbot.go:288-297: every line of a batch is stored as a key
storeAll(m, lines, chat) ==
    IF lines = <<>> THEN m
    ELSE storeAll(MapPut(m, parseArgs(Head(lines), chat).id, Nil), Tail(lines), chat)

\* amazbot.go:145-299: what handling one update makes of the active set,
\* the bucket "db", userChats and the bucket "config"; a pasted link is
\* answered with buttons before the user is looked up
handle(st, u) ==
    LET chat == chatOf(st.userChats, u.user)
    IN  IF u.kind = "link" THEN st
        ELSE IF ~valid(st.userChats, u.user) THEN st
        ELSE CASE u.command = "chat" /\ u.args # <<>> ->
                    [st EXCEPT !.userChats = MapPut(@, u.user, u.args),
                               !.config = MapPut(@, Itoa(u.user), u.args)]
               [] u.command = "search" /\ u.args # <<>> ->
                    [st EXCEPT !.searchs = MapPut(@, parseArgs(u.args, chat).id, Nil)]
               [] u.command = "stop" /\ u.args # <<>> ->
                    LET p == parseArgs(u.args, chat)
                    IN  IF p.query = Star
                        THEN [st EXCEPT !.searchs = EmptyMap,
                                        !.db = [k \in DOMAIN st.db \ DOMAIN st.searchs |-> st.db[k]]]
                        ELSE IF loaded(st.searchs, p.id)
                        THEN [st EXCEPT !.searchs = MapDelete(@, p.id),
                                        !.db = MapDelete(@, p.id)]
                        ELSE st
               [] u.command = "batch" ->
                    [st EXCEPT !.searchs = storeAll(@, Split(u.args, "\n"), chat)]
               [] OTHER -> st

\* the commands of the model with their arguments
Calls ==
    {<<"chat", <<"9">>>>, <<"chat", <<>>>>, <<"search", XKey>>, <<"search", <<>>>>,
     <<"stop", XKey>>, <<"stop", Star>>, <<"batch", XKey>>, <<"status", Star>>,
     <<"export", <<>>>>, <<"", <<>>>>}

\* command messages, button callbacks and pasted links of every user
Updates ==
    {Update(k, user, c[1], c[2]) :
        k \in {"message", "callback", "link"}, user \in Users, c \in Calls}

\* amazbot.go:60-89: Run has set up userChats, with the destination the
\* second user has configured or without one, and loaded the keys
InitAuth ==
    /\ item = ZeroItem
    /\ snapshot = ZeroPrices
    /\ events = <<>>
    /\ maxState = 4
    /\ lowMin = 0
    /\ first = FALSE
    /\ InitDedupVars
    /\ InitClientVars
    /\ args = <<>>
    /\ userChat = <<>>
    /\ stored = NoKey
    /\ parsed = NoArgs
    /\ kpc = "cmd"
    /\ config \in {EmptyMap, [k \in {Itoa(2)} |-> <<"9">>]}
    /\ userChats = [user \in {Admin} \cup Allowed |->
                       IF Itoa(user) \in DOMAIN config THEN config[Itoa(user)] ELSE Itoa(user)]
    /\ update = NoUpdate
    /\ db \in Persisted
    /\ searchs = reload(db)
    /\ ppc = "range"
    /\ pkeys = <<>>
    /\ pk = NoArgs
    /\ InitCycleVars
    /\ cpc = "idle"
    /\ ckeys = <<>>
    /\ ck = NoArgs
    /\ cancelled = FALSE
    /\ stopped = {}
    /\ ranged = {}
    /\ deletes = <<>>

\* amazbot.go:137-299: one turn of the command loop
HandleUpdate(u) ==
    LET r == handle([searchs |-> searchs, db |-> db,
                     userChats |-> userChats, config |-> config], u)
    IN  /\ searchs' = r.searchs
        /\ db' = r.db
        /\ userChats' = r.userChats
        /\ config' = r.config
        /\ update' = u
        /\ UNCHANGED <<pollVars, cmdVars, cancelled, histVars, args, userChat, stored, parsed,
                       kpc, policyVars, dedupVars, clientVars>>

NextAuth == \E u \in Updates : HandleUpdate(u)

SpecAuth == InitAuth /\ [][NextAuth]_vars

\* C31: when a response carries the captcha marker, the solver is called
\* only if the image and both hidden tokens were found, and the validation
\* request is issued only after a non-empty solution on top of that; with
\* the image or a token missing, or with the solver failing or giving an
\* empty text, the fetch ends in an error and sends no further request.
C31_CaptchaNeedsAllParts ==
    [][/\ fpc = "do" /\ form'.marker /\ requests' = requests + 1 =>
            IF form'.img /\ form'.amzn /\ form'.amznr
            THEN fpc' = "solve" /\ solves' = solves
            ELSE fpc' = "ret" /\ fres' = "error" /\ solves' = solves
       /\ fpc = "solve" /\ fpc' # fpc =>
            /\ form.marker /\ form.img /\ form.amzn /\ form.amznr
            /\ solves' = solves + 1
            /\ \/ fpc' = "do" /\ depth' = depth + 1 /\ requests' = requests
               \/ fpc' = "ret" /\ fres' \in {"error", "timeout"} /\ requests' = requests
       /\ depth' > depth => fpc = "solve" /\ solves' = solves + 1
       /\ fpc = "ret" => requests' <= requests]_vars

\* a captcha page with the image and amzn but without amzn-r ended the
\* fetch: one request, the solver never called
C31_Witness ==
    /\ fpc = "ret"
    /\ fres = "error"
    /\ form = Form(TRUE, TRUE, TRUE, FALSE)
    /\ requests = 1
    /\ solves = 0


\* C33: no item page of a domain is fetched before a reset for that domain
\* has gone through: a call of Search for a domain not yet started resets
\* the session, and either starts the domain and goes on to the loop, or
\* returns the error with the domain left unstarted and no page fetched, so
\* that the next call resets again; a call for a started domain goes to
\* the loop with the jar untouched, and a started domain stays started.
C33_ResetBeforeFirstFetch ==
    [][/\ spc \in {"call", "done"} /\ cancelled' = cancelled =>
            LET domain == parseID(pk'.query).domain
            IN  IF domain \in started
                THEN spc' = "loop" /\ jar' = jar /\ started' = started
                ELSE \/ spc' = "loop" /\ started' = started \cup {domain} /\ jar' = {domain}
                     \/ /\ spc' = "done"
                        /\ ret' = "error"
                        /\ started' = started
                        /\ sfetch' = sfetch
       /\ spc = "loop" => parseID(pk.query).domain \in started
       /\ sfetch' # sfetch => sfetch'.domain \in started
       /\ started \subseteq started']_vars

\* Search for "de" failed in its first-use reset after "es" was started and
\* fetched: "de" is not started and no page of it was fetched
C33_Witness ==
    /\ spc = "done"
    /\ ret = "error"
    /\ parseID(pk.query).domain = <<"d", "e">>
    /\ started = {<<"e", "s">>}
    /\ sfetch.domain = <<"e", "s">>


\* C34: the cache suppresses an event only when an event for the same
\* destination, the same item (product code and domain), the same tier and
\* the same rounded price was notified within the TTL before it; an event
\* for the same product code on another domain is never suppressed by it.
C34_SuppressedOnlyBySameItem ==
    dropped # NoEvent =>
        /\ dropped.ev \in DOMAIN sent
        /\ \E n \in DOMAIN sent[dropped.ev] :
              /\ sent[dropped.ev][n] <= dropped.at
              /\ dropped.at <= sent[dropped.ev][n] + TTL


\* C35: an attempt that fails before the decision step (the fetch of the
\* product page or of an offers page gave an error, or the product page has
\* no title or no link) ends with an error and leaves the item, the events
\* and the snapshot as they were; the item and the events change in one
\* step only, that of an attempt that succeeded, from the item as it was
\* at the call, and after that step Search returns.
C35_FailedAttemptLeavesItem ==
    [][/\ spc = "search" /\ spc' = "result" =>
            /\ (fres # "doc" \/ (apc = "product" /\ (~fdoc.title \/ ~fdoc.link)))
                  => aerr' # "nil"
            /\ aerr' # "nil" => item' = item /\ events' = events /\ snapshot' = snapshot
       /\ (item' # item \/ events' # events) =>
            /\ spc = "search" /\ spc' = "result" /\ aerr' = "nil"
            /\ item = item0
            /\ events = <<>>
       /\ (spc = "result" /\ aerr = "nil" /\ spc' # spc) => spc' = "done"]_vars

\* Search returned nil with events after one attempt timed out and another
\* failed with a retriable error
C35_Witness ==
    /\ spc = "done"
    /\ ret = "nil"
    /\ timeouts >= 1
    /\ retriables = 1
    /\ events # <<>>
    /\ item # item0


\* C36: starting from an absent item, after every successful extraction
\* the stored item has MinPrice <= Prices[0]; so a nonzero tier-0 price
\* that is a new minimum is never at or above a nonzero stored tier-0
\* price, and when the stored MinPrice is nonzero its event is emitted.
C36_MinPriceAtMostTier0 ==
    [][/\ item'.MinPrice <= item'.Prices[0]
       /\ (snapshot'[0] # 0 /\ (item.MinPrice = 0 \/ snapshot'[0] < item.MinPrice))
             => ~(item.Prices[0] > 0 /\ snapshot'[0] >= item.Prices[0])
       /\ (snapshot'[0] # 0 /\ item.MinPrice # 0 /\ snapshot'[0] < item.MinPrice)
             => \E k \in DOMAIN events' : events'[k] = 0]_vars

\* a tier-0 event for 20.00 where the lowest MinPrice stored before was
\* 45.00: MinPrice and Prices[0] are both 20.00 afterwards
C36_Witness ==
    /\ Emitted(0)
    /\ lowMin = 45000
    /\ item.MinPrice = 20000
    /\ item.Prices[0] = 20000


LiveKeys == {<<"1", "/">> \o XKey, <<"1", "/">> \o YKey}

\* C38: with no cancellation, weak fairness of the polling loop, and every
\* Search in flight returning in the end (its attempts do not time out for
\* ever: the loop is outside Client.Search again and again), every key that stays in the active set is handed to bot.search
\* infinitely often; and an attempt that times out leaves the loop at the
\* same key of the same cycle, so that a key whose attempts always time
\* out keeps every other key from being polled.
C38_ActiveKeyPolledForever ==
    /\ []<>(ppc # "search") =>
          \A k \in LiveKeys :
              <>[](k \in DOMAIN searchs) => []<>(ppc = "get" /\ pk.id = k)
    /\ [][timeouts' > timeouts =>
             /\ ppc = "search" /\ ppc' = "search"
             /\ pk' = pk /\ pkeys' = pkeys /\ visited' = visited]_vars

\* the Search of the first key has timed out MaxTimeouts times with the
\* second key of the cycle still waiting
C38_Witness ==
    /\ ppc = "search"
    /\ timeouts = MaxTimeouts
    /\ pk.id = <<"1", "/">> \o XKey
    /\ pkeys = <<(<<"1", "/">> \o YKey)>>


\* C39: when Run returns after cancellation the store is closed only after
\* the polling goroutine has exited: once the store is closed the goroutine
\* is done, and no step reads or writes the store from then on.
C39_StoreClosedAfterPolling ==
    /\ [](cpc = "closed" => ppc = "done" /\ cancelled)
    /\ [][cpc = "closed" => cpc' = "closed" /\ ppc' = ppc /\ db' = db /\ deletes' = deletes]_vars

\* Run has closed the store after the goroutine exited in the middle of a
\* cycle
C39_Witness ==
    /\ cpc = "closed"
    /\ ppc = "done"
    /\ pkeys # <<>>
    /\ visited # <<>>


\* C40: an update of a user that is neither the admin nor an allowed user
\* changes neither the active set, nor the bucket of the searches, nor the
\* destinations in userChats and in the bucket "config", whatever its
\* kind, command and arguments.
C40_StrangerChangesNothing ==
    [][update'.user \notin {Admin} \cup Allowed =>
          /\ searchs' = searchs
          /\ db' = db
          /\ userChats' = userChats
          /\ config' = config]_vars

\* a stranger's button callback "/stop *" was handled and the keys are
\* still active and stored
C40_Witness ==
    /\ update = Update("callback", 3, "stop", Star)
    /\ DOMAIN searchs # {}
    /\ DOMAIN db # {}

====
